---- MODULE Spec2Model ----
(***************************************************************************)
(* A model of zpp::serializer (src/serializer.h): the memory archives, the *)
(* built-in container handlers, the polymorphic registry and the type      *)
(* registration facility.  Bytes are integers 0..255, a vector of bytes is *)
(* a sequence, and the host is little-endian.                              *)
(***************************************************************************)
EXTENDS Integers, Sequences, FiniteSets, TLC

\* ------------------------------------------------------------------------
\* Bounds of the model.
\* ------------------------------------------------------------------------

\* Longest resizable sequence / largest associative container drawn as input.
MaxLen == 2

\* Number of archive calls in the archive scenarios.
MaxCalls == 3

\* Length of the vector an output archive is constructed over, and the number
\* of bytes a throwing serialize writes before it throws.
InitialLen == 100
ThrowLen == 20

\* Number of registration statements in the registry scenarios.
MaxRegs == 2

\* The largest element count for which the host's allocator satisfies a
\* container's resize; a larger count ends the resize with std::bad_alloc.
MaxAlloc == 8

\* Number of threads that call the registries concurrently.
MaxThreads == 2

\* Length of the longest name make_id is applied to.
MaxNameLen == 64

\* ------------------------------------------------------------------------
\* Byte codec: fundamental items are copied as their object representation.
\* ------------------------------------------------------------------------

\* Half of the bits of size_type (std::uint32_t): arithmetic modulo 2^32 is
\* carried out on two 16-bit limbs.
Limb == 65536

\* static_cast<size_type>(n).
ToSizeType(n) == ((n \div Limb) % Limb) * Limb + (n % Limb)

\* sizeof(id_type), id_type being std::uint64_t.
IdSize == 8

\* sizeof(size_type).
SizeTypeSize == 4

\* The object representation of an unsigned integer of n <= 4 bytes.
RECURSIVE ToBytes(_, _)
ToBytes(v, n) ==
    IF n = 0 THEN <<>> ELSE <<v % 256>> \o ToBytes(v \div 256, n - 1)

RECURSIVE FromBytes(_)
FromBytes(bs) ==
    IF bs = <<>> THEN 0 ELSE Head(bs) + 256 * FromBytes(Tail(bs))

\* An integer wider than 4 bytes is the pair <<low 32 bits, high bits>>.
IntToBytes(v, n) ==
    IF n <= 4 THEN ToBytes(v, n) ELSE ToBytes(v[1], 4) \o ToBytes(v[2], n - 4)

IntFromBytes(bs) ==
    IF Len(bs) <= 4 THEN FromBytes(bs)
    ELSE <<FromBytes(SubSeq(bs, 1, 4)), FromBytes(SubSeq(bs, 5, Len(bs)))>>

\* std::vector<unsigned char>::resize(n): truncates, or appends zero bytes.
VectorResize(vec, n) ==
    [i \in 1..n |-> IF i <= Len(vec) THEN vec[i] ELSE 0]

\* An erase that takes one element too many.
VectorEraseLong(vec, n) == SubSeq(vec, n + 2, Len(vec))

\* std::vector::erase(begin, begin + n).
VectorErase(vec, n) == SubSeq(vec, n + 1, Len(vec))

\* ------------------------------------------------------------------------
\* Type descriptors.  k is the kind, n a width or a count, c a class name,
\* s the parameter types.
\* ------------------------------------------------------------------------

\* The kinds of the resizable sequences.
ResizableKinds == {"vector", "list", "deque", "forward_data"}

TypeDesc(k, n, c, s) == [k |-> k, n |-> n, c |-> c, s |-> s]

IntT(n) == TypeDesc("int", n, "", <<>>)
EnumT(n) == TypeDesc("enum", n, "", <<>>)
ArrayT(T, n) == TypeDesc("array", n, "", <<T>>)
PairT(A, B) == TypeDesc("pair", 0, "", <<A, B>>)
TupleT(s) == TypeDesc("tuple", 0, "", s)
VectorT(T) == TypeDesc("vector", 0, "", <<T>>)
ListT(T) == TypeDesc("list", 0, "", <<T>>)
DequeT(T) == TypeDesc("deque", 0, "", <<T>>)
\* A resizable sequence of the user with forward iterators and data().
ForwardDataT(T) == TypeDesc("forward_data", 0, "", <<T>>)
MapT(K, V) == TypeDesc("map", 0, "", <<K, V>>)
ClassT(c, s) == TypeDesc("class", 0, c, s)
UniquePtrT(T) == TypeDesc("unique_ptr", 0, "", <<T>>)
SharedPtrT(T) == TypeDesc("shared_ptr", 0, "", <<T>>)
PolyUniquePtrT(c) == TypeDesc("poly_unique_ptr", 0, c, <<>>)
PolySharedPtrT(c) == TypeDesc("poly_shared_ptr", 0, c, <<>>)
AsPolymorphicT(c) == TypeDesc("as_polymorphic", 0, c, <<>>)
BinaryT(n) == TypeDesc("binary", n, "", <<>>)
ThrowingT(n) == TypeDesc("throwing", n, "", <<>>)

U8 == IntT(1)
U16 == IntT(2)
U32 == IntT(4)
IdT == IntT(IdSize)
SizeT == IntT(SizeTypeSize)
\* std::string is a contiguous resizable sequence of char.
StringT == VectorT(U8)
\* The class point of the documentation: archive(self.m_x, self.m_y).
PointT == ClassT("point", <<U16, U16>>)

\* ------------------------------------------------------------------------
\* The polymorphic classes of the program: person and student (derived from
\* person) as in the documentation, and shape, an unrelated polymorphic base.
\* ------------------------------------------------------------------------

PolyClasses == {"person", "student", "shape"}

\* The direct base class; "polymorphic" is zpp::serializer::polymorphic.
BaseOf(c) == IF c = "student" THEN "person" ELSE "polymorphic"

\* std::is_base_of<b, c>, or the same class: dynamic_cast<b &> of a c works.
RECURSIVE IsA(_, _)
IsA(c, b) ==
    \/ c = b
    \/ b = "polymorphic"
    \/ c # "polymorphic" /\ IsA(BaseOf(c), b)

\* The members a class's serialize passes to the archive, base class first:
\* student::serialize calls person::serialize, then archive(m_university).
ClassFields(c) ==
    CASE c = "person" -> <<StringT>>
      [] c = "student" -> <<StringT, StringT>>
      [] c = "shape" -> <<U8>>

\* ------------------------------------------------------------------------
\* Values.  Integers are naturals below 256^n, sequences and arrays are
\* sequences, a map is the sequence of its (key, value) pairs in iteration
\* (key) order, an owning pointer is <<>> when null and <<pointee>> otherwise,
\* an object reached through polymorphic is [cls, fields].
\* ------------------------------------------------------------------------

\* Two values of an integer of n bytes; the bytes of the second are distinct.
HighValue(n) == FromBytes([i \in 1..n |-> 127 - i])
ScalarValues(n) ==
    IF n <= 4 THEN {1, HighValue(n)} ELSE {<<2, 0>>, <<HighValue(4), 1>>}

SeqsUpTo(S, n) == UNION {[1..m -> S] : m \in 0..n}

IsSortedByKey(m) == \A i \in 1..(Len(m) - 1) : m[i][1] < m[i + 1][1]

RECURSIVE Values(_)
RECURSIVE TupleValues(_)
Objects(c) == {[cls |-> c, fields |-> f] : f \in TupleValues(ClassFields(c))}

ObjectsDerivedFrom(b) == UNION {Objects(c) : c \in {d \in PolyClasses : IsA(d, b)}}

TupleValues(s) ==
    IF s = <<>> THEN {<<>>}
    ELSE {<<h>> \o t : h \in Values(Head(s)), t \in TupleValues(Tail(s))}

Values(T) ==
    CASE T.k \in {"int", "enum"} -> ScalarValues(T.n)
      [] T.k = "array" -> [1..T.n -> Values(T.s[1])]
      [] T.k \in {"pair", "tuple", "class"} -> TupleValues(T.s)
      [] T.k \in ResizableKinds -> SeqsUpTo(Values(T.s[1]), MaxLen)
      [] T.k = "map" ->
            {m \in SeqsUpTo(TupleValues(T.s), MaxLen) : IsSortedByKey(m)}
      [] T.k \in {"unique_ptr", "shared_ptr"} ->
            {<<>>} \cup {<<v>> : v \in Values(T.s[1])}
      [] T.k \in {"poly_unique_ptr", "poly_shared_ptr"} ->
            {<<>>} \cup {<<o>> : o \in ObjectsDerivedFrom(T.c)}
      [] T.k = "as_polymorphic" -> ObjectsDerivedFrom(T.c)
      [] T.k \in {"binary", "throwing"} -> [1..T.n -> ScalarValues(1)]

\* A default-constructed (value-initialised) object of the type.
RECURSIVE Default(_)
RECURSIVE DefaultTuple(_)
DefaultTuple(s) ==
    IF s = <<>> THEN <<>> ELSE <<Default(Head(s))>> \o DefaultTuple(Tail(s))

Default(T) ==
    CASE T.k \in {"int", "enum"} -> IF T.n <= 4 THEN 0 ELSE <<0, 0>>
      [] T.k = "array" -> [i \in 1..T.n |-> Default(T.s[1])]
      [] T.k \in {"pair", "tuple", "class"} -> DefaultTuple(T.s)
      [] T.k \in {"binary", "throwing"} -> [i \in 1..T.n |-> 0]
      [] OTHER -> <<>>

\* access::make_unique<Type>() for a polymorphic class.
DefaultObject(c) == [cls |-> c, fields |-> DefaultTuple(ClassFields(c))]

\* ------------------------------------------------------------------------
\* lazy_vector_memory_output_archive: [m_output, m_size], m_output being the
\* content of the vector the archive points to.
\* ------------------------------------------------------------------------

\* The constructor: m_size(output.size()).
OutputArchive(output) == [m_output |-> output, m_size |-> Len(output)]

\* A capacity policy that resizes to what is needed and no more.
GrowVectorExact(vec, need) ==
    IF need > Len(vec) THEN VectorResize(vec, need) ELSE vec

\* The capacity policy: resize to (m_size + k) * 3 / 2 when m_size + k exceeds
\* the vector's size.
GrowVector(vec, need) ==
    IF need > Len(vec) THEN VectorResize(vec, (need * 3) \div 2) ELSE vec

\* A serialize that copies the bytes to the end of the grown vector.
OutputSerializeAtEnd(ar, bytes) ==
    [m_output |-> GrowVector(ar.m_output, ar.m_size + Len(bytes)) \o bytes,
     m_size |-> ar.m_size + Len(bytes)]

\* serialize(Item && item) and serialize(const void * data, size_type size):
\* grow, copy the bytes at m_output->data() + m_size, advance m_size.
OutputSerialize(ar, bytes) ==
    LET k == Len(bytes)
        grown == GrowVector(ar.m_output, ar.m_size + k)
    IN  [m_output |-> SubSeq(grown, 1, ar.m_size) \o bytes
                      \o SubSeq(grown, ar.m_size + k + 1, Len(grown)),
         m_size |-> ar.m_size + k]

\* A fit_vector() that leaves the vector as it is.
FitVectorNoResize(ar) == ar

\* fit_vector(): m_output->resize(m_size).
FitVector(ar) == [ar EXCEPT !.m_output = VectorResize(ar.m_output, ar.m_size)]

\* ------------------------------------------------------------------------
\* registry<Archive>: [m_serialization_id_to_method,
\* m_type_information_to_serialization_id].  A serialization method is named
\* by the Type make_serialization_method was instantiated with.
\* ------------------------------------------------------------------------

EmptyMap == [e \in {} |-> 0]

EmptyRegistry ==
    [m_serialization_id_to_method |-> EmptyMap,
     m_type_information_to_serialization_id |-> EmptyMap]

\* An insertion that replaces the value of a key already present.
MapInsertOrAssign(m, key, value) ==
    [e \in DOMAIN m \cup {key} |-> IF e = key THEN value ELSE m[e]]

\* std::unordered_map::emplace: no effect when the key is already present.
MapEmplace(m, key, value) ==
    IF key \in DOMAIN m THEN m
    ELSE [e \in DOMAIN m \cup {key} |-> IF e = key THEN value ELSE m[e]]

\* An add that records the id of the type and no method for the id.
RegistryAddTypeOnly(reg, id, type) ==
    [reg EXCEPT !.m_type_information_to_serialization_id = MapEmplace(@, type, id)]

\* registry::add(id, typeid(Type).name(), make_serialization_method<Archive, Type>()).
RegistryAdd(reg, id, type) ==
    [m_serialization_id_to_method |->
        MapEmplace(reg.m_serialization_id_to_method, id, type),
     m_type_information_to_serialization_id |->
        MapEmplace(reg.m_type_information_to_serialization_id, type, id)]

\* ------------------------------------------------------------------------
\* Handler selection for resizable sequences (the enable_if conditions).
\* ------------------------------------------------------------------------

IsFundamentalOrEnum(T) == T.k \in {"int", "enum"}
IsClass(T) == ~IsFundamentalOrEnum(T)
\* std::vector has random access iterators and data(), std::list has neither,
\* std::deque has random access iterators and no data().
IsRandomAccess(C) == C.k \in {"vector", "deque"}
HasDataMemberFunction(C) == C.k \in {"vector", "forward_data"}

GenericSaveEnabled(C) ==
    IsClass(C.s[1]) \/ ~IsRandomAccess(C) \/ ~HasDataMemberFunction(C)
GenericLoadEnabled(C) == IsClass(C.s[1]) \/ ~IsRandomAccess(C)
ContiguousEnabled(C) ==
    HasDataMemberFunction(C) /\ IsFundamentalOrEnum(C.s[1]) /\ IsRandomAccess(C)

\* Op applied to the value of v, v being evaluated once.
Bind(v, Op(_)) == CHOOSE result \in {Op(r) : r \in {v}} : TRUE

\* ------------------------------------------------------------------------
\* Saving.  A save returns [ar, err]: the archive afterwards and the
\* exception that left the call ("none" when it returned normally).
\* ------------------------------------------------------------------------

ZipItems(types, vals) == [i \in 1..Len(types) |-> [t |-> types[i], v |-> vals[i]]]

RECURSIVE Flatten(_, _)
\* The object representation of an array of integers of n bytes each.
Flatten(vals, n) ==
    IF vals = <<>> THEN <<>>
    ELSE IntToBytes(Head(vals), n) \o Flatten(Tail(vals), n)

\* binary<Item>::size_in_bytes(): m_count * sizeof(Item), as a size_type.
SizeInBytes(count, itemSize) ==
    LET low == (count % Limb) * itemSize
        high == ((count \div Limb) * itemSize + low \div Limb) % Limb
    IN  high * Limb + (low % Limb)

RECURSIVE SaveItem(_, _, _, _)
RECURSIVE SaveItems(_, _, _)
RECURSIVE SaveItemsRightToLeft(_, _, _)

\* A serialize_items that takes the items last to first.
SaveItemsRightToLeft(ar, reg, items) ==
    IF items = <<>> THEN [ar |-> ar, err |-> "none"]
    ELSE Bind(SaveItem(ar, reg, items[Len(items)].t, items[Len(items)].v),
              LAMBDA r : IF r.err # "none" THEN r
                         ELSE SaveItemsRightToLeft(r.ar, reg,
                                  SubSeq(items, 1, Len(items) - 1)))

\* archive::serialize_items: the items one by one, first to last.
SaveItems(ar, reg, items) ==
    IF items = <<>> THEN [ar |-> ar, err |-> "none"]
    ELSE Bind(SaveItem(ar, reg, Head(items).t, Head(items).v),
              LAMBDA r : IF r.err # "none" THEN r
                         ELSE SaveItems(r.ar, reg, Tail(items)))

\* serialize_item(binary<T> &&): serialize(item.data(), item.size_in_bytes()).
SaveBinary(ar, vals, itemSize) ==
    [ar |-> OutputSerialize(ar,
                SubSeq(Flatten(vals, itemSize), 1, SizeInBytes(Len(vals), itemSize))),
     err |-> "none"]

\* The saving method made by make_serialization_method<Archive, Type>:
\* archive(dynamic_cast<const Type &>(object)).
SaveMethod(ar, reg, type, object) ==
    IF ~IsA(object.cls, type) THEN [ar |-> ar, err |-> "bad_cast"]
    ELSE SaveItems(ar, reg,
            ZipItems(ClassFields(type),
                     SubSeq(object.fields, 1, Len(ClassFields(type)))))

\* A saving registry::serialize that does not write the id.
RegistrySaveNoId(ar, reg, object) ==
    LET ids == reg.m_type_information_to_serialization_id
        methods == reg.m_serialization_id_to_method
    IN  IF object.cls \notin DOMAIN ids
        THEN [ar |-> ar, err |-> "undeclared_polymorphic_type"]
        ELSE IF ids[object.cls] \notin DOMAIN methods
        THEN [ar |-> ar, err |-> "undeclared_polymorphic_type"]
        ELSE SaveMethod(ar, reg, methods[ids[object.cls]], object)

\* A saving registry::serialize that writes the id it finds, or a zero id,
\* before it looks the method up.
RegistrySaveIdFirst(ar, reg, object) ==
    LET ids == reg.m_type_information_to_serialization_id
        methods == reg.m_serialization_id_to_method
    IN  IF object.cls \notin DOMAIN ids
        THEN [ar |-> OutputSerialize(ar, IntToBytes(<<0, 0>>, IdSize)),
              err |-> "undeclared_polymorphic_type"]
        ELSE IF ids[object.cls] \notin DOMAIN methods
        THEN [ar |-> OutputSerialize(ar, IntToBytes(ids[object.cls], IdSize)),
              err |-> "undeclared_polymorphic_type"]
        ELSE Bind(OutputSerialize(ar, IntToBytes(ids[object.cls], IdSize)),
                  LAMBDA r : SaveMethod(r, reg, methods[ids[object.cls]], object))

\* registry::serialize(Archive &, const polymorphic &).
RegistrySave(ar, reg, object) ==
    LET ids == reg.m_type_information_to_serialization_id
        methods == reg.m_serialization_id_to_method
    IN  IF object.cls \notin DOMAIN ids
        THEN [ar |-> ar, err |-> "undeclared_polymorphic_type"]
        ELSE IF ids[object.cls] \notin DOMAIN methods
        THEN [ar |-> ar, err |-> "undeclared_polymorphic_type"]
        ELSE Bind(OutputSerialize(ar, IntToBytes(ids[object.cls], IdSize)),
                  LAMBDA r : SaveMethod(r, reg, methods[ids[object.cls]], object))

\* A saving serialize of an owning pointer that reaches the registry before
\* it looks at the pointer.
SavePolymorphicPointerNoNullCheck(ar, reg, v) ==
    IF v = <<>>
    THEN [ar |-> OutputSerialize(ar, IntToBytes(<<0, 0>>, IdSize)),
          err |-> "attempt_to_serialize_null"]
    ELSE RegistrySave(ar, reg, v[1])

\* serialize(Archive &, const std::unique_ptr<Type> &) and its shared_ptr twin
\* for a polymorphic Type: a null pointer throws, else the registry saves.
SavePolymorphicPointer(ar, reg, v) ==
    IF v = <<>> THEN [ar |-> ar, err |-> "attempt_to_serialize_null"]
    ELSE RegistrySave(ar, reg, v[1])

\* serialize(Archive &, const Container &), the generic overload: the size as
\* a size_type, then every item.
SaveSequence(ar, reg, T, v) ==
    SaveItems(ar, reg,
        <<[t |-> SizeT, v |-> ToSizeType(Len(v))]>>
        \o [i \in 1..Len(v) |-> [t |-> T, v |-> v[i]]])

\* A contiguous overload that writes the size in bytes where the number of
\* items belongs.
SaveContiguousByteCount(ar, T, v) ==
    LET size == ToSizeType(Len(v))
    IN  Bind(OutputSerialize(ar, ToBytes(SizeInBytes(size, T.n), SizeTypeSize)),
             LAMBDA r : IF size = 0 THEN [ar |-> r, err |-> "none"]
                        ELSE SaveBinary(r, SubSeq(v, 1, size), T.n))

\* serialize(Archive &, const Container &), the contiguous overload.
SaveContiguous(ar, T, v) ==
    LET size == ToSizeType(Len(v))
    IN  Bind(OutputSerialize(ar, ToBytes(size, SizeTypeSize)),
             LAMBDA r : IF size = 0 THEN [ar |-> r, err |-> "none"]
                        ELSE SaveBinary(r, SubSeq(v, 1, size), T.n))

SaveItem(ar, reg, T, v) ==
    CASE T.k \in {"int", "enum"} ->
            [ar |-> OutputSerialize(ar, IntToBytes(v, T.n)), err |-> "none"]
      [] T.k = "binary" -> SaveBinary(ar, v, 1)
      [] T.k = "array" ->
            SaveItems(ar, reg, [i \in 1..Len(v) |-> [t |-> T.s[1], v |-> v[i]]])
      [] T.k \in {"pair", "tuple", "class"} -> SaveItems(ar, reg, ZipItems(T.s, v))
      [] T.k \in ResizableKinds ->
            IF ContiguousEnabled(T) THEN SaveContiguous(ar, T.s[1], v)
            ELSE IF GenericSaveEnabled(T) THEN SaveSequence(ar, reg, T.s[1], v)
            ELSE [ar |-> ar, err |-> "no_matching_function"]
      [] T.k = "map" -> SaveSequence(ar, reg, PairT(T.s[1], T.s[2]), v)
      [] T.k \in {"unique_ptr", "shared_ptr"} ->
            IF v = <<>> THEN [ar |-> ar, err |-> "attempt_to_serialize_null"]
            ELSE SaveItem(ar, reg, T.s[1], v[1])
      [] T.k \in {"poly_unique_ptr", "poly_shared_ptr"} ->
            SavePolymorphicPointer(ar, reg, v)
      [] T.k = "as_polymorphic" -> RegistrySave(ar, reg, v)
      \* A user class whose serialize passes its n bytes to the archive and
      \* then throws.
      [] T.k = "throwing" ->
            [ar |-> SaveItems(ar, reg, [i \in 1..Len(v) |-> [t |-> U8, v |-> v[i]]]).ar,
             err |-> "user_exception"]

\* The bytes a save of one value appends to an empty vector.
Encode(reg, T, v) == FitVector(SaveItem(OutputArchive(<<>>), reg, T, v).ar).m_output

\* ------------------------------------------------------------------------
\* memory_view_input_archive: [m_input, m_size, m_offset].
\* ------------------------------------------------------------------------

\* The constructor: m_input(input), m_size(size), m_offset 0.
InputArchive(input) == [m_input |-> input, m_size |-> Len(input), m_offset |-> 0]

\* A serialize whose check rejects the read that ends at the end of the input.
InputSerializeOffByOne(ar, n) ==
    IF ar.m_size <= n + ar.m_offset
    THEN [ar |-> ar, err |-> "out_of_range", bytes |-> <<>>]
    ELSE [ar |-> [ar EXCEPT !.m_offset = ar.m_offset + n],
          err |-> "none",
          bytes |-> SubSeq(ar.m_input, ar.m_offset + 1, ar.m_offset + n)]

\* A serialize that leaves m_offset where it was.
InputSerializeNoAdvance(ar, n) ==
    IF ar.m_size < n + ar.m_offset
    THEN [ar |-> ar, err |-> "out_of_range", bytes |-> <<>>]
    ELSE [ar |-> ar, err |-> "none",
          bytes |-> SubSeq(ar.m_input, ar.m_offset + 1, ar.m_offset + n)]

\* serialize(Item && item) and serialize(void * data, size_type size): throw
\* out_of_range when m_size < size + m_offset, else copy and advance.
InputSerialize(ar, n) ==
    IF ar.m_size < n + ar.m_offset
    THEN [ar |-> ar, err |-> "out_of_range", bytes |-> <<>>]
    ELSE [ar |-> [ar EXCEPT !.m_offset = ar.m_offset + n],
          err |-> "none",
          bytes |-> SubSeq(ar.m_input, ar.m_offset + 1, ar.m_offset + n)]

\* ------------------------------------------------------------------------
\* Loading.  A load returns [ar, err, v]: the archive afterwards, the
\* exception that left the call, and the destination afterwards.
\* ------------------------------------------------------------------------

RECURSIVE Unflatten(_, _)
\* The integers of n bytes each whose object representations are the bytes.
Unflatten(bytes, n) ==
    IF Len(bytes) < n THEN <<>>
    ELSE <<IntFromBytes(SubSeq(bytes, 1, n))>>
         \o Unflatten(SubSeq(bytes, n + 1, Len(bytes)), n)

\* Container::resize(size) of a sequence container.
ContainerResize(container, size, T) ==
    [i \in 1..size |-> IF i <= Len(container) THEN container[i] ELSE Default(T)]

\* std::map::insert: a pair whose key is present is discarded.
MapInsert(container, item) ==
    IF \E i \in 1..Len(container) : container[i][1] = item[1] THEN container
    ELSE SelectSeq(container, LAMBDA e : e[1] < item[1])
         \o <<item>>
         \o SelectSeq(container, LAMBDA e : e[1] > item[1])

RECURSIVE LoadItem(_, _, _, _)
RECURSIVE LoadItems(_, _, _, _)
RECURSIVE LoadMapItems(_, _, _, _, _)

\* archive::serialize_items: the items one by one, first to last.
LoadItems(ar, reg, types, dests) ==
    IF types = <<>> THEN [ar |-> ar, err |-> "none", v |-> <<>>]
    ELSE Bind(LoadItem(ar, reg, Head(types), Head(dests)),
              LAMBDA r :
                IF r.err # "none"
                THEN [ar |-> r.ar, err |-> r.err, v |-> <<r.v>> \o Tail(dests)]
                ELSE Bind(LoadItems(r.ar, reg, Tail(types), Tail(dests)),
                          LAMBDA rest : [ar |-> rest.ar, err |-> rest.err,
                                         v |-> <<r.v>> \o rest.v]))

\* serialize_item(binary<T> &&): serialize(item.data(), item.size_in_bytes())
\* into the storage of count integers of itemSize bytes.
LoadBinary(ar, dest, itemSize) ==
    Bind(InputSerialize(ar, SizeInBytes(Len(dest), itemSize)),
         LAMBDA r :
           IF r.err # "none" THEN [ar |-> r.ar, err |-> r.err, v |-> dest]
           ELSE Bind(Flatten(dest, itemSize),
                     LAMBDA storage :
                       [ar |-> r.ar, err |-> "none",
                        v |-> Unflatten(r.bytes \o SubSeq(storage, Len(r.bytes) + 1,
                                                          Len(storage)),
                                        itemSize)]))

\* serialize(Archive &, Container &), the generic overload: the size, resize,
\* then every item.
LoadSequence(ar, reg, T, dest) ==
    Bind(LoadItem(ar, reg, SizeT, 0),
         LAMBDA rs :
           IF rs.err # "none" THEN [ar |-> rs.ar, err |-> rs.err, v |-> dest]
           ELSE IF rs.v > MaxAlloc
           THEN [ar |-> rs.ar, err |-> "bad_alloc", v |-> dest]
           ELSE Bind(ContainerResize(dest, rs.v, T),
                     LAMBDA resized :
                       LoadItems(rs.ar, reg, [i \in 1..rs.v |-> T], resized)))

\* serialize(Archive &, Container &), the contiguous overload.
LoadContiguous(ar, reg, T, dest) ==
    Bind(LoadItem(ar, reg, SizeT, 0),
         LAMBDA rs :
           IF rs.err # "none" THEN [ar |-> rs.ar, err |-> rs.err, v |-> dest]
           ELSE IF rs.v > MaxAlloc
           THEN [ar |-> rs.ar, err |-> "bad_alloc", v |-> dest]
           ELSE IF rs.v = 0 THEN [ar |-> rs.ar, err |-> "none", v |-> <<>>]
           ELSE Bind(ContainerResize(dest, rs.v, T),
                     LAMBDA resized : LoadBinary(rs.ar, resized, T.n)))

\* The loop of the associative overload: an item is loaded into a temporary
\* and inserted.
LoadMapItems(ar, reg, P, count, container) ==
    IF count = 0 THEN [ar |-> ar, err |-> "none", v |-> container]
    ELSE Bind(LoadItem(ar, reg, P, Default(P)),
              LAMBDA r :
                IF r.err # "none" THEN [ar |-> r.ar, err |-> r.err, v |-> container]
                ELSE Bind(MapInsert(container, r.v),
                          LAMBDA inserted :
                            LoadMapItems(r.ar, reg, P, count - 1, inserted)))

\* serialize(Archive &, Container &), the associative overload.
LoadMap(ar, reg, P, dest) ==
    Bind(LoadItem(ar, reg, SizeT, 0),
         LAMBDA rs :
           IF rs.err # "none" THEN [ar |-> rs.ar, err |-> rs.err, v |-> dest]
           ELSE LoadMapItems(rs.ar, reg, P, rs.v, dest))

\* A loading method that constructs the object and loads nothing into it.
LoadMethodNoFill(ar, reg, type) ==
    [ar |-> ar, err |-> "none", v |-> <<DefaultObject(type)>>]

\* The loading method made by make_serialization_method<Archive, Type>:
\* make_unique<Type>(), archive(*concrete_type), object.reset(...).
LoadMethod(ar, reg, type) ==
    Bind(LoadItems(ar, reg, ClassFields(type), DefaultObject(type).fields),
         LAMBDA r :
           IF r.err # "none" THEN [ar |-> r.ar, err |-> r.err, v |-> <<>>]
           ELSE [ar |-> r.ar, err |-> "none",
                 v |-> <<[cls |-> type, fields |-> r.v]>>])

\* registry::serialize(Archive &, std::unique_ptr<polymorphic> &).
RegistryLoad(ar, reg) ==
    LET methods == reg.m_serialization_id_to_method
    IN  Bind(InputSerialize(ar, IdSize),
             LAMBDA rid :
               IF rid.err # "none"
               THEN [ar |-> rid.ar, err |-> rid.err, v |-> <<>>]
               ELSE IF IntFromBytes(rid.bytes) \notin DOMAIN methods
               THEN [ar |-> rid.ar, err |-> "undeclared_polymorphic_type",
                     v |-> <<>>]
               ELSE LoadMethod(rid.ar, reg, methods[IntFromBytes(rid.bytes)]))

\* A loading serialize of an owning pointer without the dynamic_cast check.
LoadPolymorphicPointerNoCheck(ar, reg, type, dest) ==
    Bind(RegistryLoad(ar, reg),
         LAMBDA r :
           IF r.err # "none" THEN [ar |-> r.ar, err |-> r.err, v |-> dest]
           ELSE r)

\* serialize(Archive &, std::unique_ptr<Type> &) and its shared_ptr twin for a
\* polymorphic Type: the registry loads, dynamic_cast<Type &> checks.
LoadPolymorphicPointer(ar, reg, type, dest) ==
    Bind(RegistryLoad(ar, reg),
         LAMBDA r :
           IF r.err # "none" THEN [ar |-> r.ar, err |-> r.err, v |-> dest]
           ELSE IF ~IsA(r.v[1].cls, type)
           THEN [ar |-> r.ar, err |-> "polymorphic_type_mismatch", v |-> dest]
           ELSE r)

LoadItem(ar, reg, T, dest) ==
    CASE T.k \in {"int", "enum"} ->
            Bind(InputSerialize(ar, T.n),
                 LAMBDA r : [ar |-> r.ar, err |-> r.err,
                             v |-> IF r.err = "none" THEN IntFromBytes(r.bytes)
                                   ELSE dest])
      [] T.k = "binary" -> LoadBinary(ar, dest, 1)
      [] T.k = "array" -> LoadItems(ar, reg, [i \in 1..T.n |-> T.s[1]], dest)
      [] T.k \in {"pair", "tuple", "class"} -> LoadItems(ar, reg, T.s, dest)
      [] T.k \in ResizableKinds ->
            IF ContiguousEnabled(T) THEN LoadContiguous(ar, reg, T.s[1], dest)
            ELSE IF GenericLoadEnabled(T) THEN LoadSequence(ar, reg, T.s[1], dest)
            ELSE [ar |-> ar, err |-> "no_matching_function", v |-> dest]
      [] T.k = "map" -> LoadMap(ar, reg, PairT(T.s[1], T.s[2]), dest)
      [] T.k \in {"unique_ptr", "shared_ptr"} ->
            Bind(LoadItem(ar, reg, T.s[1], Default(T.s[1])),
                 LAMBDA r : [ar |-> r.ar, err |-> r.err,
                             v |-> IF r.err = "none" THEN <<r.v>> ELSE dest])
      [] T.k \in {"poly_unique_ptr", "poly_shared_ptr"} ->
            LoadPolymorphicPointer(ar, reg, T.c, dest)
      \* A user class whose serialize passes its n bytes to the archive and
      \* then throws.
      [] T.k = "throwing" ->
            Bind(LoadItems(ar, reg, [i \in 1..T.n |-> U8], dest),
                 LAMBDA r : [ar |-> r.ar, v |-> r.v,
                             err |-> IF r.err = "none" THEN "user_exception"
                                     ELSE r.err])

\* ------------------------------------------------------------------------
\* The program: a vector `data` with a memory_output_archive `out` and a
\* memory_input_archive `in` bound to it (as in the documentation), a
\* memory_view_input_archive `view` over a borrowed range, and the registries
\* of the two built-in archives.
\* ------------------------------------------------------------------------

\* The threads of the program.
Threads == 1..MaxThreads

\* A shared_mutex nobody holds: no exclusive owner (0), and for every thread
\* the number of shared locks it holds.
UnlockedMutex == [writer |-> 0, readers |-> [t \in Threads |-> 0]]

\* A thread that has not called a registry yet.
IdleThread ==
    [pc |-> "idle", archive |-> "", type |-> "", id |-> <<0, 0>>,
     pending |-> <<>>, thrown_at |-> "", err |-> "none"]

VARIABLES
    data,           \* std::vector<unsigned char> data
    out_m_size,     \* out.m_size
    in_m_offset,    \* in.m_offset
    view,           \* the view archive [m_input, m_size, m_offset]
    registry_in,    \* registry<memory_view_input_archive>
    registry_out,   \* registry<lazy_vector_memory_output_archive>
    trace,          \* the calls made so far, oldest first
    mutex,          \* registry<Archive>::m_shared_mutex, by the archive's name
    threads         \* the threads that call the registries, and where each is

vars ==
    <<data, out_m_size, in_m_offset, view, registry_in, registry_out, trace,
      mutex, threads>>

\* What the calls of the single-threaded scenarios leave alone.
threadVars == <<mutex, threads>>

Call(op, types, dests, vals, err, before, offset, consumed) ==
    [op |-> op, types |-> types, dests |-> dests, vals |-> vals, err |-> err,
     before |-> before, offset |-> offset, consumed |-> consumed]

Types(items) == [i \in 1..Len(items) |-> items[i].t]
Vals(items) == [i \in 1..Len(items) |-> items[i].v]

\* A memory_output_archive::operator() without its catch block.
OutputCallNoCatch(ar, reg, items) ==
    Bind(SaveItems(ar, reg, items),
         LAMBDA r : [ar |-> IF r.err = "none" THEN FitVector(r.ar) ELSE r.ar,
                     err |-> r.err])

\* memory_output_archive::operator(): serialize the items, fit the vector,
\* also when an exception passes through.
OutputCall(ar, reg, items) ==
    Bind(SaveItems(ar, reg, items),
         LAMBDA r : [ar |-> FitVector(r.ar), err |-> r.err])

\* out(items...).
Save(items) ==
    \E r \in {OutputCall([m_output |-> data, m_size |-> out_m_size],
                          registry_out, items)} :
        /\ data' = r.ar.m_output
        /\ out_m_size' = r.ar.m_size
        /\ trace' = Append(trace,
              Call("save", Types(items), <<>>, Vals(items), r.err, data, out_m_size, 0))
        /\ UNCHANGED <<in_m_offset, view, registry_in, registry_out, threadVars>>

\* A memory_input_archive::operator() whose catch block only rethrows.
InputCallNoErase(input, reg, types, dests) ==
    Bind(LoadItems(InputArchive(input), reg, types, dests),
         LAMBDA r :
           [input |-> IF r.err = "none" THEN VectorErase(input, r.ar.m_offset)
                      ELSE input,
            m_offset |-> IF r.err = "none" THEN 0 ELSE r.ar.m_offset,
            consumed |-> r.ar.m_offset, err |-> r.err, v |-> r.v])

\* memory_input_archive::operator(): rebind the view to the vector, load the
\* items, erase the loaded bytes and reset, also when an exception passes
\* through.  `consumed` is get_offset() when the inner call is left.
InputCall(input, reg, types, dests) ==
    Bind(LoadItems(InputArchive(input), reg, types, dests),
         LAMBDA r : [input |-> VectorErase(input, r.ar.m_offset), m_offset |-> 0,
                     consumed |-> r.ar.m_offset, err |-> r.err, v |-> r.v])

\* in(items...).
Load(types, dests) ==
    \E r \in {InputCall(data, registry_in, types, dests)} :
        /\ data' = r.input
        /\ in_m_offset' = r.m_offset
        /\ trace' = Append(trace,
              Call("load", types, dests, r.v, r.err, data, 0, r.consumed))
        /\ UNCHANGED <<out_m_size, view, registry_in, registry_out, threadVars>>

\* memory_view_input_archive view(bytes.data(), bytes.size()).
ViewConstruct(bytes) ==
    /\ view' = InputArchive(bytes)
    /\ trace' = Append(trace, Call("view", <<>>, <<>>, <<>>, "none", bytes, 0, 0))
    /\ UNCHANGED <<data, out_m_size, in_m_offset, registry_in, registry_out,
                   threadVars>>

\* archive::operator() of the view archive.
ViewLoad(types, dests) ==
    \E r \in {LoadItems(view, registry_in, types, dests)} :
        /\ view' = r.ar
        /\ trace' = Append(trace,
              Call("view_load", types, dests, r.v, r.err, view.m_input,
                   view.m_offset, r.ar.m_offset - view.m_offset))
        /\ UNCHANGED <<data, out_m_size, in_m_offset, registry_in, registry_out,
                       threadVars>>

Defaults(types) == [i \in 1..Len(types) |-> Default(types[i])]

LastCall == trace[Len(trace)]

\* The state after construction over a vector holding `initial`.
InitWith(initial) ==
    /\ data = initial
    /\ out_m_size = Len(initial)
    /\ in_m_offset = 0
    /\ view = InputArchive(<<>>)
    /\ registry_in = EmptyRegistry
    /\ registry_out = EmptyRegistry
    /\ trace = <<>>
    /\ mutex = [a \in {"memory_view_input_archive",
                       "lazy_vector_memory_output_archive"} |-> UnlockedMutex]
    /\ threads = [t \in Threads |-> IdleThread]

\* ------------------------------------------------------------------------
\* Round trips: a value is saved into an empty vector and loaded back through
\* a view of the vector.
\* ------------------------------------------------------------------------

RoundTripTypes ==
    {U8, U16, U32, IdT, EnumT(2), ArrayT(U16, 2), ArrayT(PointT, 2),
     PairT(U8, U16), TupleT(<<U8, U16, U8>>), PointT,
     VectorT(U16), VectorT(EnumT(1)), ListT(U8), VectorT(PointT), StringT,
     VectorT(StringT), MapT(U8, U16), MapT(U16, StringT),
     PairT(StringT, MapT(U8, U8)), VectorT(PairT(U8, U16))}

RoundTripInit == InitWith(<<>>)

RoundTripSave ==
    /\ trace = <<>>
    /\ \E T \in RoundTripTypes : \E v \in Values(T) : Save(<<[t |-> T, v |-> v]>>)

RoundTripView ==
    /\ Len(trace) = 1
    /\ ViewConstruct(data)

RoundTripLoad ==
    /\ Len(trace) = 2
    /\ ViewLoad(trace[1].types, Defaults(trace[1].types))

RoundTripNext == RoundTripSave \/ RoundTripView \/ RoundTripLoad

SpecRoundTrip == RoundTripInit /\ [][RoundTripNext]_vars

\* C1: a value saved into an empty vector and loaded from that vector into a
\* default-constructed destination is loaded equal, without an exception, and
\* the load consumes exactly the bytes the save wrote.
RoundTrip ==
    Len(trace) = 3 =>
        /\ trace[1].err = "none"
        /\ trace[3].err = "none"
        /\ trace[3].vals = trace[1].vals
        /\ trace[3].consumed = Len(data)
        /\ view.m_offset = Len(data)

RoundTripWitness ==
    /\ Len(trace) = 3
    /\ trace[3].types = <<VectorT(StringT)>>
    /\ Len(trace[3].vals[1]) = MaxLen
    /\ trace[3].vals = trace[1].vals

\* ------------------------------------------------------------------------
\* The archives at work: save and load calls, in any order, on the vector the
\* two archives share; the vector may hold bytes when they are constructed.
\* ------------------------------------------------------------------------

InitialBuffer == [i \in 1..InitialLen |-> 7]

ThrowingItem == [t |-> ThrowingT(ThrowLen), v |-> [i \in 1..ThrowLen |-> 1 + (i % 2)]]

\* The items of the save calls of the scenario.
SaveCalls ==
   <<<<[t |-> U16, v |-> HighValue(2)]>>,
     <<[t |-> VectorT(U16), v |-> <<1, HighValue(2)>>]>>,
     <<[t |-> U8, v |-> 1], [t |-> U16, v |-> HighValue(2)]>>,
     <<ThrowingItem>>,
     <<[t |-> U8, v |-> 1], ThrowingItem>>,
     <<[t |-> U8, v |-> 1], [t |-> UniquePtrT(U8), v |-> <<>>]>> >>

\* The destinations of the load calls of the scenario.
LoadCalls ==
    {<<U16>>, <<U8, U32>>, <<VectorT(U16)>>, <<ListT(U16)>>, <<U8, ThrowingT(1)>>}

\* A saved sequence of which the last byte has not arrived yet.
TruncatedStream ==
    LET stream == Encode(EmptyRegistry, VectorT(U16), <<1, HighValue(2)>>)
    IN  SubSeq(stream, 1, Len(stream) - 1)

Init == \E initial \in {<<>>, InitialBuffer, TruncatedStream} : InitWith(initial)

SaveCall ==
    /\ Len(trace) < MaxCalls
    /\ \E i \in 1..Len(SaveCalls) : Save(SaveCalls[i])

LoadCall ==
    /\ Len(trace) < MaxCalls
    /\ \E types \in LoadCalls : Load(types, Defaults(types))

Next == SaveCall \/ LoadCall

Spec == Init /\ [][Next]_vars

\* The bytes a save call of the items appends to an empty vector, up to the
\* exception when one of them throws.
WireBytes(reg, items) == OutputCall(OutputArchive(<<>>), reg, items).ar.m_output

AllSaves == \A i \in 1..Len(trace) : trace[i].op = "save"

\* The vector when call i has returned.
After(i) == IF i = Len(trace) THEN data ELSE trace[i + 1].before

RECURSIVE BytesWritten(_)
\* The number of bytes the save calls of a trace wrote.
BytesWritten(calls) ==
    IF calls = <<>> THEN 0
    ELSE Len(WireBytes(registry_out, ZipItems(Head(calls).types, Head(calls).vals)))
         + BytesWritten(Tail(calls))

\* C3: after any sequence of save calls, returning normally or by exception,
\* the vector's length is the archive's logical size, which is the length at
\* construction plus the bytes written; every call leaves what was there and
\* appends its bytes at the tail, with nothing after them.
OutputLengthIsLogicalSize ==
    (AllSaves /\ trace # <<>>) =>
        /\ Len(data) = out_m_size
        /\ out_m_size = Len(trace[1].before) + BytesWritten(trace)
        /\ \A i \in 1..Len(trace) :
              After(i) = trace[i].before
                         \o WireBytes(registry_out, ZipItems(trace[i].types, trace[i].vals))

OutputLengthWitness ==
    /\ AllSaves
    /\ Len(trace) = MaxCalls
    /\ trace[1].before = InitialBuffer
    /\ \E i \in 1..Len(trace) : trace[i].err # "none"
    /\ LastCall.err = "none"
    /\ Len(data) > InitialLen + ThrowLen

\* C4: a save call left by an exception reports that exception, keeps every
\* byte written before it and leaves the vector cut to the logical size; from
\* a vector of InitialLen bytes, a serialize that writes ThrowLen bytes and
\* throws leaves length and logical size at InitialLen + ThrowLen.
PartialWriteKept ==
    (trace # <<>> /\ LastCall.op = "save" /\ LastCall.err # "none") =>
        LET items == ZipItems(LastCall.types, LastCall.vals)
            written == WireBytes(registry_out, items)
        IN  /\ Len(data) = out_m_size
            /\ out_m_size = LastCall.offset + Len(written)
            /\ SubSeq(data, Len(data) - Len(written) + 1, Len(data)) = written
            /\ LastCall.offset = Len(LastCall.before) => data = LastCall.before \o written
            /\ items = <<ThrowingItem>> =>
                  /\ LastCall.err = "user_exception"
                  /\ written = ThrowingItem.v
                  /\ LastCall.before = InitialBuffer =>
                        Len(data) = InitialLen + ThrowLen /\ out_m_size = InitialLen + ThrowLen
            /\ items[Len(items)].t = UniquePtrT(U8) =>
                  LastCall.err = "attempt_to_serialize_null" /\ written = <<1>>

PartialWriteWitness ==
    /\ Len(trace) = 1
    /\ LastCall.op = "save"
    /\ LastCall.err = "user_exception"
    /\ LastCall.before = InitialBuffer
    /\ ZipItems(LastCall.types, LastCall.vals) = <<ThrowingItem>>
    /\ Len(data) = InitialLen + ThrowLen

\* C5: after a load call of the consuming archive, left normally or by an
\* exception, the bytes consumed in the call are gone from the head of the
\* vector, the others are as they were, and the cursor is zero; the bytes a
\* successful load consumed are the encoding of the values it loaded.
ConsumedBytesErased ==
    (trace # <<>> /\ LastCall.op = "load") =>
        /\ in_m_offset = 0
        /\ LastCall.consumed <= Len(LastCall.before)
        /\ data = SubSeq(LastCall.before, LastCall.consumed + 1, Len(LastCall.before))
        /\ LastCall.err = "none" =>
              LastCall.before
                  = WireBytes(registry_out, ZipItems(LastCall.types, LastCall.vals)) \o data

ConsumedBytesWitness ==
    /\ trace # <<>>
    /\ LastCall.op = "load"
    /\ LastCall.err = "user_exception"
    /\ LastCall.consumed = 2
    /\ Len(data) = Len(LastCall.before) - 2
    /\ Len(trace) > 1
    /\ trace[1].op = "load"
    /\ trace[1].err = "none"

\* The size of the first read of the archive a load of the type makes.
RECURSIVE FirstReadSize(_)
FirstReadSize(T) ==
    CASE T.k \in {"int", "enum", "binary"} -> T.n
      [] T.k \in ResizableKinds \cup {"map"} -> SizeTypeSize
      [] T.k \in {"poly_unique_ptr", "poly_shared_ptr"} -> IdSize
      [] T.k = "throwing" -> 1
      [] OTHER -> FirstReadSize(T.s[1])

\* C6, as claimed: a load call of the consuming archive that raises
\* out_of_range erases nothing.
OutOfRangeErasesNothing ==
    (trace # <<>> /\ LastCall.op = "load" /\ LastCall.err = "out_of_range") =>
        data = LastCall.before

\* C6, amended: a load call of the consuming archive that raises out_of_range
\* leaves the vector as it was exactly when its first read is the one that
\* fails; otherwise the bytes of the reads that succeeded are erased.
OutOfRangeErasesConsumed ==
    (trace # <<>> /\ LastCall.op = "load" /\ LastCall.err = "out_of_range") =>
        /\ data = LastCall.before <=> Len(LastCall.before) < FirstReadSize(LastCall.types[1])
        /\ Len(LastCall.before) >= FirstReadSize(LastCall.types[1]) =>
              /\ LastCall.consumed >= FirstReadSize(LastCall.types[1])
              /\ Len(data) = Len(LastCall.before) - LastCall.consumed

OutOfRangeWitness ==
    /\ trace # <<>>
    /\ LastCall.op = "load"
    /\ LastCall.err = "out_of_range"
    /\ LastCall.types = <<VectorT(U16)>>
    /\ LastCall.before = TruncatedStream
    /\ LastCall.consumed = SizeTypeSize
    /\ Len(data) = Len(TruncatedStream) - SizeTypeSize

\* ------------------------------------------------------------------------
\* Concatenation: two values are saved one after the other and loaded back
\* in the same order through the consuming archive.
\* ------------------------------------------------------------------------

ConcatTypes ==
    {U16, PairT(U8, U16), ArrayT(U16, 2), StringT, VectorT(PointT), MapT(U8, U16)}

ConcatSave ==
    /\ Len(trace) < 2
    /\ \E T \in ConcatTypes : \E v \in Values(T) : Save(<<[t |-> T, v |-> v]>>)

ConcatLoad ==
    /\ Len(trace) \in {2, 3}
    /\ Load(trace[Len(trace) - 1].types, Defaults(trace[Len(trace) - 1].types))

ConcatNext == ConcatSave \/ ConcatLoad

SpecConcat == InitWith(<<>>) /\ [][ConcatNext]_vars

\* C2: after save(a) and save(b) on one output archive, load(x) and load(y) on
\* an input archive over the vector give x = a and y = b.
Concatenation ==
    /\ Len(trace) >= 3 => trace[3].err = "none" /\ trace[3].vals = trace[1].vals
    /\ Len(trace) = 4 => trace[4].err = "none" /\ trace[4].vals = trace[2].vals

ConcatenationWitness ==
    /\ Len(trace) = 4
    /\ trace[3].types = <<VectorT(PointT)>>
    /\ trace[4].types = <<MapT(U8, U16)>>
    /\ Len(trace[3].vals[1]) = MaxLen
    /\ Len(trace[4].vals[1]) = 2
    /\ trace[3].vals = trace[1].vals
    /\ trace[4].vals = trace[2].vals
    /\ data = <<>>

\* ------------------------------------------------------------------------
\* The view archive on its own: loads, one after the other, from a borrowed
\* range, into destinations that hold values already.
\* ------------------------------------------------------------------------

ViewStreams ==
    {<<>>, <<5>>, TruncatedStream, Encode(EmptyRegistry, VectorT(U16), <<1, HighValue(2)>>)}

ViewLoadCalls ==
    {<<U8>>, <<U16>>, <<U32>>, <<BinaryT(3)>>, <<VectorT(U16)>>, <<U8, ListT(U16)>>}

RECURSIVE Preset(_)
\* A value a destination holds before a load.
Preset(T) ==
    CASE T.k \in {"int", "enum"} -> HighValue(T.n)
      [] T.k = "binary" -> [i \in 1..T.n |-> 9]
      [] T.k \in ResizableKinds -> <<Preset(T.s[1])>>
      [] OTHER -> Default(T)

Presets(types) == [i \in 1..Len(types) |-> Preset(types[i])]

ViewInit == InitWith(<<>>)

ViewConstructCall ==
    /\ trace = <<>>
    /\ \E bytes \in ViewStreams : ViewConstruct(bytes)

ViewLoadCall ==
    /\ trace # <<>>
    /\ Len(trace) <= MaxCalls
    /\ \E types \in ViewLoadCalls : ViewLoad(types, Presets(types))

ViewNext == ViewConstructCall \/ ViewLoadCall

SpecView == ViewInit /\ [][ViewNext]_vars

IsRawRead(call) ==
    /\ call.op = "view_load"
    /\ Len(call.types) = 1
    /\ call.types[1].k \in {"int", "enum", "binary"}

\* C7: a read of k bytes by the view archive at offset o succeeds, advancing
\* the offset by k and copying the k bytes at o, if and only if o + k <= size;
\* otherwise it raises out_of_range and leaves offset and destination alone.
\* The offset is at most the size in every state.
ViewReadsWithinBounds ==
    /\ view.m_size = Len(view.m_input)
    /\ 0 <= view.m_offset /\ view.m_offset <= view.m_size
    /\ (trace # <<>> /\ IsRawRead(LastCall)) =>
          LET k == LastCall.types[1].n
              o == LastCall.offset
              bytes == SubSeq(view.m_input, o + 1, o + k)
          IN  IF o + k <= view.m_size
              THEN /\ LastCall.err = "none"
                   /\ view.m_offset = o + k
                   /\ LastCall.vals[1] = IF LastCall.types[1].k = "binary" THEN bytes
                                         ELSE FromBytes(bytes)
              ELSE /\ LastCall.err = "out_of_range"
                   /\ view.m_offset = o
                   /\ LastCall.vals = LastCall.dests

ViewReadsPastEndWitness ==
    /\ Len(trace) = 3
    /\ IsRawRead(trace[2]) /\ trace[2].err = "none"
    /\ IsRawRead(trace[3]) /\ trace[3].types = <<U32>> /\ trace[3].err = "out_of_range"
    /\ view.m_offset = trace[3].offset
    /\ view.m_offset + 3 = view.m_size


\* ------------------------------------------------------------------------
\* Polymorphic types: the program registers types, then saves an object
\* through an owning pointer to a base or through as_polymorphic, and loads
\* it into an owning pointer.
\* ------------------------------------------------------------------------

\* builtin_archives, each archive named by its class.
BuiltinArchives == <<"memory_view_input_archive", "lazy_vector_memory_output_archive">>

\* The registries of the built-in archives, by the archive's name.
Registries(input, output) ==
    [memory_view_input_archive |-> input, lazy_vector_memory_output_archive |-> output]

RECURSIVE RegisterTypeToArchives(_, _, _, _)
\* register_type_to_archives: registry<Archive>::get_instance().add<Type, id>()
\* for the first archive of the sequence, then for the others.
RegisterTypeToArchives(regs, archives, type, id) ==
    IF archives = <<>> THEN regs
    ELSE RegisterTypeToArchives(
            [regs EXCEPT ![Head(archives)] = RegistryAdd(@, id, type)],
            Tail(archives), type, id)

RECURSIVE RegisterTypesConstructor(_, _, _)
\* The constructor of register_types<make_type<Type, id>, ExtraTypes...>: the
\* base class register_types<ExtraTypes...> is default-constructed first, and
\* registers to the built-in archives; then Type is registered to `archives`.
RegisterTypesConstructor(regs, list, archives) ==
    IF list = <<>> THEN regs
    ELSE RegisterTypeToArchives(
            RegisterTypesConstructor(regs, Tail(list), BuiltinArchives),
            archives, Head(list).type, Head(list).id)

\* register_types<make_type<...>...> _(archives): an object of the facility
\* is constructed.
RegisterTypes(list, archives) ==
    \E regs \in {RegisterTypesConstructor(Registries(registry_in, registry_out),
                                            list, archives)} :
        /\ registry_in' = regs.memory_view_input_archive
        /\ registry_out' = regs.lazy_vector_memory_output_archive
        /\ trace' = Append(trace,
              Call("register", list, archives, <<>>, "none", data, 0, 0))
        /\ UNCHANGED <<data, out_m_size, in_m_offset, view, threadVars>>

MakeType(type, id) == [type |-> type, id |-> id]

\* Two serialization ids.
IdA == <<2, 0>>
IdB == <<HighValue(4), 1>>

\* The registrations of the scenario: the list of make_type pairs and the
\* archive sequence given to the constructor.
RegisterCalls ==
   <<[list |-> <<MakeType("person", IdA), MakeType("student", IdB)>>,
      archives |-> BuiltinArchives],
     [list |-> <<MakeType("student", IdA)>>, archives |-> BuiltinArchives],
     [list |-> <<MakeType("shape", IdB)>>, archives |-> BuiltinArchives],
     [list |-> <<MakeType("shape", IdA)>>,
      archives |-> <<"lazy_vector_memory_output_archive">>],
     [list |-> <<MakeType("person", IdB)>>,
      archives |-> <<"memory_view_input_archive">>],
     [list |-> <<MakeType("person", IdB), MakeType("shape", IdA)>>,
      archives |-> <<"lazy_vector_memory_output_archive">>] >>

\* The objects of the scenario: every string member holds one character and
\* the members of an object differ.
PolyObjects(c) ==
    {o \in Objects(c) :
        /\ \A i \in 1..Len(o.fields) :
              ClassFields(c)[i] = StringT => Len(o.fields[i]) = 1
        /\ \A i, j \in 1..Len(o.fields) : i # j => o.fields[i] # o.fields[j]}

\* The polymorphic classes an object of class c can be pointed to through.
BasesOf(c) == {b \in PolyClasses : IsA(c, b)}

\* The root of the class's hierarchy below polymorphic.
RECURSIVE RootOf(_)
RootOf(c) == IF BaseOf(c) = "polymorphic" THEN c ELSE RootOf(BaseOf(c))

PolyInit == InitWith(<<>>)

PolyRegister ==
    /\ Len(trace) < MaxRegs
    /\ \E i \in 1..Len(RegisterCalls) :
          RegisterTypes(RegisterCalls[i].list, RegisterCalls[i].archives)

HasSaved == \E i \in 1..Len(trace) : trace[i].op = "save"

\* out(pointer), with the pointer an owning pointer to a base of the object.
PolySavePointer ==
    /\ ~HasSaved
    /\ \E c \in PolyClasses : \E o \in PolyObjects(c) : \E b \in BasesOf(c) :
          Save(<<[t |-> PolyUniquePtrT(b), v |-> <<o>>]>>)

\* out(as_polymorphic(object)).
PolySaveWrapper ==
    /\ ~HasSaved
    /\ \E c \in PolyClasses : \E o \in PolyObjects(c) :
          Save(<<[t |-> AsPolymorphicT(c), v |-> o]>>)

\* out(pointer, as_polymorphic(*pointer)).
PolySaveBoth ==
    /\ ~HasSaved
    /\ \E c \in PolyClasses : \E o \in PolyObjects(c) :
          Save(<<[t |-> PolySharedPtrT(RootOf(c)), v |-> <<o>>],
                 [t |-> AsPolymorphicT(c), v |-> o]>>)

\* The items of the save calls that follow the first one: objects and null
\* pointers.
SecondSaves ==
   <<<<[t |-> AsPolymorphicT("person"),
        v |-> [cls |-> "person", fields |-> <<<<1>>>>]]>>,
     <<[t |-> PolyUniquePtrT("person"),
        v |-> <<[cls |-> "student", fields |-> <<<<1>>, <<HighValue(1)>>>>]>>]>>,
     <<[t |-> PolyUniquePtrT("person"), v |-> <<>>]>>,
     <<[t |-> PolySharedPtrT("shape"), v |-> <<>>]>>,
     <<[t |-> UniquePtrT(U8), v |-> <<>>]>>,
     <<[t |-> SharedPtrT(PointT), v |-> <<>>]>> >>

SavesSoFar == Cardinality({i \in 1..Len(trace) : trace[i].op = "save"})

\* A second out(item), right after the first.
PolySaveSecond ==
    /\ trace # <<>>
    /\ LastCall.op = "save"
    /\ SavesSoFar = 1
    /\ \E i \in 1..Len(SecondSaves) : Save(SecondSaves[i])

\* The load before the last call failed for want of a method, and the last
\* call registered types.
RegisteredAfterUndeclared ==
    /\ Len(trace) >= 2
    /\ LastCall.op = "register"
    /\ trace[Len(trace) - 1].op = "load"
    /\ trace[Len(trace) - 1].err = "undeclared_polymorphic_type"

\* Types are registered after a load that found no method for the id.
PolyRegisterMissing ==
    /\ trace # <<>>
    /\ LastCall.op = "load"
    /\ LastCall.err = "undeclared_polymorphic_type"
    /\ \E i \in {1, Len(RegisterCalls)} :
          RegisterTypes(RegisterCalls[i].list, RegisterCalls[i].archives)

\* The load that failed is repeated on the same archive.
PolyRetry ==
    /\ RegisteredAfterUndeclared
    /\ Load(trace[Len(trace) - 1].types, trace[Len(trace) - 1].dests)

\* in(pointer), with the pointer a null owning pointer.
PolyLoad ==
    /\ trace # <<>>
    /\ LastCall.op = "save"
    /\ SavesSoFar = 1
    /\ \E T \in {LastCall.types[1].k} :
       \E b \in PolyClasses :
          LET P == IF T = "poly_shared_ptr" THEN PolySharedPtrT(b)
                   ELSE PolyUniquePtrT(b)
          IN  Load(<<P>>, <<Default(P)>>)

PolyNext ==
    \/ PolyRegister
    \/ PolySavePointer
    \/ PolySaveWrapper
    \/ PolySaveBoth
    \/ PolySaveSecond
    \/ PolyLoad
    \/ PolyRegisterMissing
    \/ PolyRetry

SpecPoly == PolyInit /\ [][PolyNext]_vars


\* The type is registered in the registry: its key has an id, and the method
\* under the id is the one made for the type.
RegisteredIn(reg, type) ==
    /\ type \in DOMAIN reg.m_type_information_to_serialization_id
    /\ LET id == reg.m_type_information_to_serialization_id[type]
       IN  /\ id \in DOMAIN reg.m_serialization_id_to_method
           /\ reg.m_serialization_id_to_method[id] = type

IsPolymorphicItem(T) == T.k \in {"poly_unique_ptr", "poly_shared_ptr", "as_polymorphic"}

\* The object a polymorphic item of a save call refers to.
Pointee(T, v) == IF T.k = "as_polymorphic" THEN v ELSE v[1]

\* The id the output registry has for the object's class, then what
\* archive(static_cast<const Type &>(object)) writes for its class Type.
IdThenBody(object) ==
    IntToBytes(registry_out.m_type_information_to_serialization_id[object.cls], IdSize)
    \o Encode(EmptyRegistry, ClassT(object.cls, ClassFields(object.cls)), object.fields)

RECURSIVE IdThenBodyOfEach(_, _)
IdThenBodyOfEach(types, vals) ==
    IF types = <<>> THEN <<>>
    ELSE IdThenBody(Pointee(Head(types), Head(vals)))
         \o IdThenBodyOfEach(Tail(types), Tail(vals))

\* C8: a save call whose items are owning pointers to polymorphic bases or
\* as_polymorphic wrappers, the class of every object saved being registered
\* in the output registry, returns normally and appends, for each item in
\* turn, the 8 bytes of the class's id followed by the bytes a save of the
\* object as a plain value of its class appends; a pointer and a wrapper
\* that refer to equal objects append the same bytes.
PolymorphicWireFormat ==
    (/\ trace # <<>>
     /\ LastCall.op = "save"
     /\ \A i \in 1..Len(LastCall.types) :
           /\ IsPolymorphicItem(LastCall.types[i])
           /\ LastCall.vals[i] # <<>>
           /\ RegisteredIn(registry_out,
                           Pointee(LastCall.types[i], LastCall.vals[i]).cls))
    => /\ LastCall.err = "none"
       /\ data = LastCall.before \o IdThenBodyOfEach(LastCall.types, LastCall.vals)

PolymorphicWireFormatWitness ==
    /\ trace # <<>>
    /\ LastCall.op = "save"
    /\ LastCall.err = "none"
    /\ Len(LastCall.types) = 2
    /\ LastCall.types[1].k = "poly_shared_ptr"
    /\ LastCall.types[2].k = "as_polymorphic"
    /\ LastCall.vals[2].cls = "student"
    /\ LastCall.vals[1] = <<LastCall.vals[2]>>
    /\ RegisteredIn(registry_out, "student")
    /\ Len(data) = 2 * Len(IdThenBody(LastCall.vals[2]))

\* C9: when an owning pointer to a base that points at an object of class T
\* is saved, T being registered in the output registry under an id that the
\* input registry has T's method for, and the bytes are loaded into a null
\* owning pointer to the same base, the load returns normally and the pointer
\* points at an object of class T equal to the saved one.
PolymorphicRoundTrip ==
    (/\ Len(trace) >= 2
     /\ LastCall.op = "load"
     /\ trace[Len(trace) - 1].op = "save"
     /\ trace[Len(trace) - 1].types[1].k \in {"poly_unique_ptr", "poly_shared_ptr"}
     /\ LastCall.types[1] = trace[Len(trace) - 1].types[1]
     /\ LET T == trace[Len(trace) - 1].vals[1][1].cls
        IN  /\ RegisteredIn(registry_out, T)
            /\ LET id == registry_out.m_type_information_to_serialization_id[T]
               IN  /\ id \in DOMAIN registry_in.m_serialization_id_to_method
                   /\ registry_in.m_serialization_id_to_method[id] = T)
    => /\ LastCall.err = "none"
       /\ LastCall.vals[1] # <<>>
       /\ LastCall.vals[1][1].cls = trace[Len(trace) - 1].vals[1][1].cls
       /\ LastCall.vals[1][1].fields = trace[Len(trace) - 1].vals[1][1].fields
       /\ LastCall.consumed = Len(IdThenBody(trace[Len(trace) - 1].vals[1][1]))

PolymorphicRoundTripWitness ==
    /\ Len(trace) >= 2
    /\ LastCall.op = "load"
    /\ LastCall.err = "none"
    /\ trace[Len(trace) - 1].op = "save"
    /\ trace[Len(trace) - 1].types = <<PolyUniquePtrT("person")>>
    /\ trace[Len(trace) - 1].vals[1][1].cls = "student"
    /\ LastCall.types = <<PolyUniquePtrT("person")>>
    /\ LastCall.vals = trace[Len(trace) - 1].vals
    /\ data = <<>>

\* The class of the object the loading method constructs, found by running
\* the method on a stream of zero bytes.
ConstructedBy(method) ==
    LoadMethod(InputArchive([i \in 1..(2 * SizeTypeSize) |-> 0]), registry_in, method)
        .v[1].cls

\* The type's key yields an id in the output registry, the saving method
\* under the id is the type's, and the loading method the input registry has
\* under the id constructs an object of the type.
ConsistentFor(type) ==
    /\ RegisteredIn(registry_out, type)
    /\ LET id == registry_out.m_type_information_to_serialization_id[type]
       IN  /\ id \in DOMAIN registry_in.m_serialization_id_to_method
           /\ ConstructedBy(registry_in.m_serialization_id_to_method[id]) = type

\* C10 as stated: after any sequence of registrations, every type whose key
\* is in the output registry is consistent in the two registries.
RegistryConsistency ==
    \A type \in DOMAIN registry_out.m_type_information_to_serialization_id :
        ConsistentFor(type)

\* What one construction of the registration facility registered: the first
\* pair of the list to the archives given, the others to the built-in ones.
RegistrationsOf(call) ==
    {[type |-> call.types[i].type, id |-> call.types[i].id,
      archives |-> IF i = 1 THEN call.dests ELSE BuiltinArchives] :
        i \in 1..Len(call.types)}

Registrations ==
    UNION {RegistrationsOf(trace[i]) :
              i \in {j \in 1..Len(trace) : trace[j].op = "register"}}

\* No other type has been registered under the id the output registry has
\* for the type, and every registration of the type went to both built-in
\* archives.
RegisteredWithoutConflict(type) ==
    \A r \in Registrations :
        /\ r.id = registry_out.m_type_information_to_serialization_id[type]
              => r.type = type
        /\ r.type = type => r.archives = BuiltinArchives

\* C10: every type whose key is in the output registry, registered without
\* conflict, is consistent in the two registries.
RegistryConsistencyWithoutConflict ==
    \A type \in DOMAIN registry_out.m_type_information_to_serialization_id :
        RegisteredWithoutConflict(type) => ConsistentFor(type)

RegistryConsistencyWitness ==
    /\ Len(trace) = MaxRegs
    /\ DOMAIN registry_out.m_type_information_to_serialization_id = PolyClasses
    /\ RegisteredWithoutConflict("person")
    /\ ConsistentFor("person")
    /\ ~RegisteredWithoutConflict("shape")
    /\ ~ConsistentFor("shape")


\* ------------------------------------------------------------------------
\* Polymorphic types: the errors.
\* ------------------------------------------------------------------------

\* The last call is a save whose first item refers to an object.
SavesObjectFirst ==
    /\ trace # <<>>
    /\ LastCall.op = "save"
    /\ IsPolymorphicItem(LastCall.types[1])
    /\ LastCall.vals[1] # <<>>

\* C11: a save call whose first item refers to an object of a class that has
\* no id in the output registry throws undeclared_polymorphic_type and leaves
\* the vector and the archive's size as they were before the call: no id is
\* written.
UndeclaredSaveWritesNothing ==
    (/\ SavesObjectFirst
     /\ Pointee(LastCall.types[1], LastCall.vals[1]).cls
           \notin DOMAIN registry_out.m_type_information_to_serialization_id)
    => /\ LastCall.err = "undeclared_polymorphic_type"
       /\ data = LastCall.before
       /\ out_m_size = LastCall.offset

UndeclaredSaveWitness ==
    /\ SavesObjectFirst
    /\ LastCall.err = "undeclared_polymorphic_type"
    /\ LastCall.before # <<>>
    /\ data = LastCall.before
    /\ registry_out # EmptyRegistry

\* The id at the head of a stream.
StreamId(stream) == IntFromBytes(SubSeq(stream, 1, IdSize))

\* The last call is a load into an owning pointer from a stream that holds
\* an id the input registry has no method for.
LoadsUndeclaredId ==
    /\ trace # <<>>
    /\ LastCall.op = "load"
    /\ LastCall.types[1].k \in {"poly_unique_ptr", "poly_shared_ptr"}
    /\ Len(LastCall.before) >= IdSize
    /\ StreamId(LastCall.before) \notin DOMAIN registry_in.m_serialization_id_to_method

\* The first load, the registration and the repeated load are the last three
\* calls, and the object saved before them is of a class the input registry
\* now has the method for, under the id that was saved.
RetriedAfterRegistration ==
    /\ Len(trace) >= 4
    /\ LastCall.op = "load"
    /\ trace[Len(trace) - 1].op = "register"
    /\ trace[Len(trace) - 2].op = "load"
    /\ trace[Len(trace) - 2].err = "undeclared_polymorphic_type"
    /\ trace[Len(trace) - 3].op = "save"
    /\ trace[Len(trace) - 3].err = "none"
    /\ Len(trace[Len(trace) - 3].types) = 1
    /\ trace[Len(trace) - 3].types[1] = LastCall.types[1]
    /\ trace[Len(trace) - 3].before = <<>>
    /\ LET id == StreamId(trace[Len(trace) - 2].before)
       IN  /\ id \in DOMAIN registry_in.m_serialization_id_to_method
           /\ registry_in.m_serialization_id_to_method[id]
                 = trace[Len(trace) - 3].vals[1][1].cls

\* C12 as stated: a load of an id without a method throws
\* undeclared_polymorphic_type, and once the type is registered the same load
\* repeated on the same archive returns normally with the saved object.
UndeclaredLoadRecoverable ==
    /\ LoadsUndeclaredId => LastCall.err = "undeclared_polymorphic_type"
    /\ RetriedAfterRegistration =>
          /\ LastCall.err = "none"
          /\ LastCall.vals = trace[Len(trace) - 3].vals

\* C12: a load of an id without a method throws undeclared_polymorphic_type
\* after the id has been read, and the 8 bytes of the id are erased from the
\* vector; the load repeated after the registration starts at the byte after
\* the id and does not return the saved object.
UndeclaredLoadConsumesId ==
    /\ LoadsUndeclaredId =>
          /\ LastCall.err = "undeclared_polymorphic_type"
          /\ LastCall.consumed = IdSize
          /\ data = SubSeq(LastCall.before, IdSize + 1, Len(LastCall.before))
          /\ in_m_offset = 0
    /\ RetriedAfterRegistration =>
          /\ LastCall.before
                = SubSeq(trace[Len(trace) - 2].before, IdSize + 1,
                         Len(trace[Len(trace) - 2].before))
          /\ LastCall.err # "none"
          /\ LastCall.vals # trace[Len(trace) - 3].vals

UndeclaredLoadWitness ==
    /\ RetriedAfterRegistration
    /\ trace[Len(trace) - 3].vals[1][1].cls = "shape"
    /\ Len(trace[Len(trace) - 2].before) > IdSize
    /\ LastCall.err = "out_of_range"

\* The last call is a save whose first item is a null owning pointer.
SavesNullFirst ==
    /\ trace # <<>>
    /\ LastCall.op = "save"
    /\ LastCall.types[1].k
          \in {"unique_ptr", "shared_ptr", "poly_unique_ptr", "poly_shared_ptr"}
    /\ LastCall.vals[1] = <<>>

\* C13: a save call whose first item is a null unique_ptr or shared_ptr, to a
\* polymorphic class or not, throws attempt_to_serialize_null and leaves the
\* vector and the archive's size as they were before the call.
NullPointerWritesNothing ==
    SavesNullFirst
    => /\ LastCall.err = "attempt_to_serialize_null"
       /\ data = LastCall.before
       /\ out_m_size = LastCall.offset

NullPointerWitness ==
    /\ SavesNullFirst
    /\ LastCall.types[1].k = "poly_shared_ptr"
    /\ LastCall.err = "attempt_to_serialize_null"
    /\ LastCall.before # <<>>
    /\ "shape" \in DOMAIN registry_out.m_type_information_to_serialization_id

\* What the input registry loads from the stream of the last call.
LoadedFromStream == RegistryLoad(InputArchive(LastCall.before), registry_in)

\* The last call is a load into an owning pointer from a stream the input
\* registry loads an object from.
LoadsObject ==
    /\ trace # <<>>
    /\ LastCall.op = "load"
    /\ LastCall.types[1].k \in {"poly_unique_ptr", "poly_shared_ptr"}
    /\ LoadedFromStream.err = "none"

\* C14: when the input registry constructs an object from the stream, the
\* load into an owning pointer to B throws polymorphic_type_mismatch exactly
\* when the object's class is neither B nor derived from B, and the pointer
\* is left as it was; otherwise the load returns normally and the pointer
\* owns the object.
MismatchExactlyWhenUnrelated ==
    LoadsObject
    => /\ LastCall.err = "polymorphic_type_mismatch"
             <=> ~IsA(LoadedFromStream.v[1].cls, LastCall.types[1].c)
       /\ LastCall.err \in {"polymorphic_type_mismatch", "none"}
       /\ LastCall.err = "none" => LastCall.vals[1] = LoadedFromStream.v
       /\ LastCall.err # "none" => LastCall.vals[1] = LastCall.dests[1]

MismatchWitness ==
    /\ LoadsObject
    /\ LoadedFromStream.v[1].cls = "student"
    /\ LastCall.types[1] = PolyUniquePtrT("shape")
    /\ LastCall.err = "polymorphic_type_mismatch"


\* ------------------------------------------------------------------------
\* The registries under concurrent calls.  Every thread makes one call on a
\* registry: an add, a polymorphic save or a polymorphic load.  A call is a
\* sequence of steps, one for each statement of the member function that
\* touches the mutex or a map; the steps of different threads interleave.
\* ------------------------------------------------------------------------

\* std::shared_mutex::lock succeeds when nobody holds the mutex.
CanLockExclusiveIgnoringReaders(m) == m.writer = 0

CanLockExclusive(m) ==
    /\ m.writer = 0
    /\ \A t \in Threads : m.readers[t] = 0

\* std::shared_mutex::lock_shared succeeds when nobody holds it exclusively.
CanLockShared(m) == m.writer = 0

\* std::lock_guard<shared_mutex> lock(m_shared_mutex), once it has succeeded.
ExclusiveLock(m, t) == [m EXCEPT !.writer = t]

\* ~lock_guard.
ExclusiveUnlock(m, t) == [m EXCEPT !.writer = 0]

\* std::shared_lock<shared_mutex> lock(m_shared_mutex), once it has succeeded.
SharedLock(m, t) == [m EXCEPT !.readers[t] = @ + 1]

\* A shared_lock that keeps the mutex when it is unlocked.
SharedUnlockKept(m, t) == m

\* lock.unlock(), and ~shared_lock when an exception leaves serialize.
SharedUnlock(m, t) == [m EXCEPT !.readers[t] = @ - 1]

\* registry<Archive>::get_instance() of the archive named a.
RegistryOf(a) == Registries(registry_in, registry_out)[a]

SetRegistry(a, reg) ==
    IF a = "memory_view_input_archive"
    THEN registry_in' = reg /\ UNCHANGED registry_out
    ELSE registry_out' = reg /\ UNCHANGED registry_in

\* The calls a thread makes.  A save names the dynamic type of the object and
\* of the polymorphic fields its handler saves in turn; a load names the id
\* at the front of the stream and the ids its handler reads in turn.
ThreadCalls ==
    {[op |-> "add", archive |-> "lazy_vector_memory_output_archive",
      keys |-> <<"shape">>, id |-> IdA],
     [op |-> "add", archive |-> "lazy_vector_memory_output_archive",
      keys |-> <<"student">>, id |-> IdA],
     [op |-> "add", archive |-> "memory_view_input_archive",
      keys |-> <<"shape">>, id |-> IdB],
     [op |-> "save", archive |-> "lazy_vector_memory_output_archive",
      keys |-> <<"student", "shape">>, id |-> <<0, 0>>],
     [op |-> "load", archive |-> "memory_view_input_archive",
      keys |-> <<IdA, IdB>>, id |-> <<0, 0>>]}

\* The registries when the threads start: the register_types objects of the
\* program are constructed during static initialization, before any thread.
StaticRegistrations == {<<>>, <<RegisterCalls[1]>>}

ThreadsInit ==
    /\ data = <<>>
    /\ out_m_size = 0
    /\ in_m_offset = 0
    /\ view = InputArchive(<<>>)
    /\ trace = <<>>
    /\ mutex = [a \in {"memory_view_input_archive",
                       "lazy_vector_memory_output_archive"} |-> UnlockedMutex]
    /\ threads = [t \in Threads |-> IdleThread]
    /\ \E static \in StaticRegistrations :
        \E regs \in {IF static = <<>>
                     THEN Registries(EmptyRegistry, EmptyRegistry)
                     ELSE RegisterTypesConstructor(
                            Registries(EmptyRegistry, EmptyRegistry),
                            static[1].list, static[1].archives)} :
            /\ registry_in = regs.memory_view_input_archive
            /\ registry_out = regs.lazy_vector_memory_output_archive

archiveVars == <<data, out_m_size, in_m_offset, view, trace>>

\* The thread enters add, the saving serialize or the loading serialize.  The
\* loading serialize reads the id from its archive before it takes the lock.
ThreadStart(t) ==
    /\ threads[t].pc = "idle"
    /\ \E c \in ThreadCalls :
        threads' = [threads EXCEPT ![t] =
            [pc |-> c.op \o "_lock", archive |-> c.archive,
             type |-> IF c.op = "load" THEN "" ELSE Head(c.keys),
             id |-> IF c.op = "load" THEN Head(c.keys) ELSE c.id,
             pending |-> Tail(c.keys), thrown_at |-> "", err |-> "none"]]
    /\ UNCHANGED <<archiveVars, registry_in, registry_out, mutex>>

\* add: std::lock_guard<shared_mutex> lock(m_shared_mutex).
AddLock(t) ==
    /\ threads[t].pc = "add_lock"
    /\ CanLockExclusive(mutex[threads[t].archive])
    /\ mutex' = [mutex EXCEPT ![threads[t].archive] = ExclusiveLock(@, t)]
    /\ threads' = [threads EXCEPT ![t].pc = "add_method"]
    /\ UNCHANGED <<archiveVars, registry_in, registry_out>>

\* add: m_serialization_id_to_method.emplace(id, serialization_method).
AddMethod(t) ==
    /\ threads[t].pc = "add_method"
    /\ SetRegistry(threads[t].archive,
            [RegistryOf(threads[t].archive) EXCEPT
                !.m_serialization_id_to_method =
                    MapEmplace(@, threads[t].id, threads[t].type)])
    /\ threads' = [threads EXCEPT ![t].pc = "add_type"]
    /\ UNCHANGED <<archiveVars, mutex>>

\* add: m_type_information_to_serialization_id.emplace(type, id), and the
\* return, which unlocks.
AddType(t) ==
    /\ threads[t].pc = "add_type"
    /\ SetRegistry(threads[t].archive,
            [RegistryOf(threads[t].archive) EXCEPT
                !.m_type_information_to_serialization_id =
                    MapEmplace(@, threads[t].type, threads[t].id)])
    /\ mutex' = [mutex EXCEPT ![threads[t].archive] = ExclusiveUnlock(@, t)]
    /\ threads' = [threads EXCEPT ![t].pc = "done"]
    /\ UNCHANGED archiveVars

\* serialize, saving: std::shared_lock<shared_mutex> lock(m_shared_mutex).
SaveLock(t) ==
    /\ threads[t].pc = "save_lock"
    /\ CanLockShared(mutex[threads[t].archive])
    /\ mutex' = [mutex EXCEPT ![threads[t].archive] = SharedLock(@, t)]
    /\ threads' = [threads EXCEPT ![t].pc = "save_find_id"]
    /\ UNCHANGED <<archiveVars, registry_in, registry_out>>

\* serialize, saving: the lookup of typeid(object).name(); the throw unlocks.
SaveFindId(t) ==
    /\ threads[t].pc = "save_find_id"
    /\ LET ids == RegistryOf(threads[t].archive).m_type_information_to_serialization_id
       IN  IF threads[t].type \in DOMAIN ids
           THEN /\ threads' = [threads EXCEPT ![t].pc = "save_find_method",
                                              ![t].id = ids[threads[t].type]]
                /\ UNCHANGED mutex
           ELSE /\ threads' = [threads EXCEPT
                        ![t].pc = "done", ![t].thrown_at = "save_find_id",
                        ![t].err = "undeclared_polymorphic_type_error"]
                /\ mutex' = [mutex EXCEPT ![threads[t].archive] = SharedUnlock(@, t)]
    /\ UNCHANGED <<archiveVars, registry_in, registry_out>>

\* serialize, saving: the lookup of the id, then lock.unlock(); the throw
\* unlocks as well.
SaveFindMethod(t) ==
    /\ threads[t].pc = "save_find_method"
    /\ LET methods == RegistryOf(threads[t].archive).m_serialization_id_to_method
       IN  IF threads[t].id \in DOMAIN methods
           THEN threads' = [threads EXCEPT ![t].pc = "save_handler"]
           ELSE threads' = [threads EXCEPT
                    ![t].pc = "done", ![t].thrown_at = "save_find_method",
                    ![t].err = "undeclared_polymorphic_type_error"]
    /\ mutex' = [mutex EXCEPT ![threads[t].archive] = SharedUnlock(@, t)]
    /\ UNCHANGED <<archiveVars, registry_in, registry_out>>

\* serialize, saving: archive(id) and serialization_method(archive, object).
\* The handler of an object with a polymorphic field enters serialize again.
SaveHandler(t) ==
    /\ threads[t].pc = "save_handler"
    /\ IF threads[t].pending = <<>>
       THEN threads' = [threads EXCEPT ![t].pc = "done"]
       ELSE threads' = [threads EXCEPT ![t].pc = "save_lock",
                                        ![t].type = Head(threads[t].pending),
                                        ![t].pending = Tail(threads[t].pending)]
    /\ UNCHANGED <<archiveVars, registry_in, registry_out, mutex>>

\* serialize, loading: std::shared_lock<shared_mutex> lock(m_shared_mutex).
LoadLock(t) ==
    /\ threads[t].pc = "load_lock"
    /\ CanLockShared(mutex[threads[t].archive])
    /\ mutex' = [mutex EXCEPT ![threads[t].archive] = SharedLock(@, t)]
    /\ threads' = [threads EXCEPT ![t].pc = "load_find_method"]
    /\ UNCHANGED <<archiveVars, registry_in, registry_out>>

\* serialize, loading: the lookup of the id, then lock.unlock(); the throw
\* unlocks as well.
LoadFindMethod(t) ==
    /\ threads[t].pc = "load_find_method"
    /\ LET methods == RegistryOf(threads[t].archive).m_serialization_id_to_method
       IN  IF threads[t].id \in DOMAIN methods
           THEN threads' = [threads EXCEPT ![t].pc = "load_handler",
                                            ![t].type = methods[threads[t].id]]
           ELSE threads' = [threads EXCEPT
                    ![t].pc = "done", ![t].thrown_at = "load_find_method",
                    ![t].err = "undeclared_polymorphic_type_error"]
    /\ mutex' = [mutex EXCEPT ![threads[t].archive] = SharedUnlock(@, t)]
    /\ UNCHANGED <<archiveVars, registry_in, registry_out>>

\* serialize, loading: serialization_method(archive, object).  The handler of
\* an object with a polymorphic field enters serialize again, which reads the
\* next id.
LoadHandler(t) ==
    /\ threads[t].pc = "load_handler"
    /\ IF threads[t].pending = <<>>
       THEN threads' = [threads EXCEPT ![t].pc = "done"]
       ELSE threads' = [threads EXCEPT ![t].pc = "load_lock",
                                        ![t].id = Head(threads[t].pending),
                                        ![t].pending = Tail(threads[t].pending)]
    /\ UNCHANGED <<archiveVars, registry_in, registry_out, mutex>>

\* The next step of a thread that is inside a call.
ThreadStep(t) ==
    \/ AddLock(t) \/ AddMethod(t) \/ AddType(t)
    \/ SaveLock(t) \/ SaveFindId(t) \/ SaveFindMethod(t) \/ SaveHandler(t)
    \/ LoadLock(t) \/ LoadFindMethod(t) \/ LoadHandler(t)

ThreadsNext ==
    \E t \in Threads :
        \/ ThreadStart(t)
        \/ AddLock(t)
        \/ AddMethod(t)
        \/ AddType(t)
        \/ SaveLock(t)
        \/ SaveFindId(t)
        \/ SaveFindMethod(t)
        \/ SaveHandler(t)
        \/ LoadLock(t)
        \/ LoadFindMethod(t)
        \/ LoadHandler(t)

SpecThreads == ThreadsInit /\ [][ThreadsNext]_vars

\* The scheduler runs every thread that can take a step: a thread inside a
\* call that is not waiting for the mutex, or whose mutex stays available,
\* eventually takes its next step.
SpecThreadsFair == SpecThreads /\ \A t \in Threads : WF_vars(ThreadStep(t))

\* The number of locks, of either kind, thread t holds on the mutex m.
Holds(m, t) == m.readers[t] + (IF m.writer = t THEN 1 ELSE 0)

InHandler(t) == threads[t].pc \in {"save_handler", "load_handler"}

InCall(t) == threads[t].pc \notin {"idle", "done"}

\* C15: a thread that runs a handler, or that has left serialize (normally
\* or with an error), holds no lock on any registry's mutex; and every call
\* a thread has entered, a save or load whose handler enters the registry
\* again and an add made meanwhile included, eventually returns.
LockNotHeldInHandler ==
    /\ [](\A t \in Threads :
            (InHandler(t) \/ ~InCall(t)) =>
                \A a \in DOMAIN mutex : Holds(mutex[a], t) = 0)
    /\ \A t \in Threads : InCall(t) ~> (threads[t].pc = "done")

\* A handler is about to enter the registry for a nested polymorphic field
\* while another thread waits in add for the same registry's mutex.
LockNotHeldInHandlerWitness ==
    \E t, u \in Threads :
        /\ InHandler(t)
        /\ threads[t].pending # <<>>
        /\ threads[u].pc = "add_lock"
        /\ threads[u].archive = threads[t].archive

\* The threads that hold the shared lock of the archive's registry.
Readers(a) == {t \in Threads : mutex[a].readers[t] > 0}

\* C16: an add holds the mutex alone, so that a thread that reads the maps
\* never sees them between the two emplaces of an add; and in the maps a
\* reader sees, the id of every type has a method, so that the saving
\* serialize never throws from its second lookup.
AddExclusiveReadsShared ==
    \A a \in DOMAIN mutex :
        /\ mutex[a].writer # 0 => Readers(a) = {}
        /\ \A t \in Threads :
            (threads[t].archive = a /\ threads[t].pc \in {"add_method", "add_type"})
                => mutex[a].writer = t
        /\ Readers(a) # {} =>
            \A type \in DOMAIN RegistryOf(a).m_type_information_to_serialization_id :
                RegistryOf(a).m_type_information_to_serialization_id[type]
                    \in DOMAIN RegistryOf(a).m_serialization_id_to_method
        /\ \A t \in Threads : threads[t].thrown_at # "save_find_method"

\* A save is at its second lookup with the id of a type that was added by
\* another thread, and not during static initialization.
AddExclusiveReadsSharedWitness ==
    \E t, u \in Threads :
        /\ t # u
        /\ threads[t].pc = "save_find_method"
        /\ threads[t].type = "shape"
        /\ threads[t].archive \in DOMAIN mutex
        /\ t \in Readers(threads[t].archive)
        /\ threads[u].pc = "done"
        /\ threads[u].type = "shape"
        /\ threads[u].archive = threads[t].archive


\* ------------------------------------------------------------------------
\* The registration facility and its target archives.
\* ------------------------------------------------------------------------

RECURSIVE RegisterEveryPair(_, _, _)
\* The registries after every pair of the list has been added to the registry
\* of every archive of the target list.
RegisterEveryPair(regs, list, archives) ==
    IF list = <<>> THEN regs
    ELSE RegisterTypeToArchives(RegisterEveryPair(regs, Tail(list), archives),
                                archives, Head(list).type, Head(list).id)

\* C18: the construction of a register_types object adds every pair of its
\* list to the registry of every archive of its target list, the built-in
\* archives by default and the given archive sequence otherwise, and to no
\* other registry.
RegistersEveryPairToTargets ==
    [][(Len(trace') = Len(trace) + 1 /\ trace'[Len(trace')].op = "register") =>
            Registries(registry_in', registry_out') =
                RegisterEveryPair(Registries(registry_in, registry_out),
                                  trace'[Len(trace')].types,
                                  trace'[Len(trace')].dests)]_vars


\* ------------------------------------------------------------------------
\* The order of the items of one call.
\* ------------------------------------------------------------------------

RECURSIVE SaveOneByOne(_, _, _)
\* out(a); out(b); ...: one call for each item, up to the first exception.
SaveOneByOne(ar, reg, items) ==
    IF items = <<>> THEN [ar |-> ar, err |-> "none"]
    ELSE Bind(OutputCall(ar, reg, <<Head(items)>>),
              LAMBDA r : IF r.err # "none" THEN r
                         ELSE SaveOneByOne(r.ar, reg, Tail(items)))

RECURSIVE LoadOneByOne(_, _, _, _)
\* in(x); in(y); ...: one call for each item, up to the first exception.
LoadOneByOne(input, reg, types, dests) ==
    IF types = <<>>
    THEN [input |-> input, m_offset |-> 0, consumed |-> 0, err |-> "none", v |-> <<>>]
    ELSE Bind(InputCall(input, reg, <<Head(types)>>, <<Head(dests)>>),
              LAMBDA r :
                IF r.err # "none"
                THEN [r EXCEPT !.v = r.v \o Tail(dests)]
                ELSE Bind(LoadOneByOne(r.input, reg, Tail(types), Tail(dests)),
                          LAMBDA rest : [rest EXCEPT
                                            !.consumed = r.consumed + rest.consumed,
                                            !.v = r.v \o rest.v]))

RECURSIVE WireBytesOfEach(_, _)
\* The encodings of the items, each saved on its own, first to last.
WireBytesOfEach(reg, items) ==
    IF items = <<>> THEN <<>>
    ELSE WireBytes(reg, <<Head(items)>>) \o WireBytesOfEach(reg, Tail(items))

\* C19: a save call of several items leaves the vector and the logical size
\* that one save call for each item, first to last, leaves, and when it
\* returns normally the bytes it appended are the encodings of the items in
\* their order; a load call of several items consumes, erases, assigns and
\* fails as one load call for each item, first to last.
LeftToRight ==
    \A i \in 1..Len(trace) :
        /\ trace[i].op = "save" =>
            LET items == ZipItems(trace[i].types, trace[i].vals)
                each == SaveOneByOne([m_output |-> trace[i].before,
                                      m_size |-> trace[i].offset],
                                     registry_out, items)
            IN  /\ After(i) = each.ar.m_output
                /\ trace[i].err = each.err
                /\ (i = Len(trace)) => out_m_size = each.ar.m_size
                /\ (trace[i].err = "none" /\ trace[i].offset = Len(trace[i].before)) =>
                        After(i) = trace[i].before \o WireBytesOfEach(registry_out, items)
        /\ trace[i].op = "load" =>
            LET each == LoadOneByOne(trace[i].before, registry_in,
                                     trace[i].types, trace[i].dests)
            IN  /\ After(i) = each.input
                /\ trace[i].vals = each.v
                /\ trace[i].consumed = each.consumed
                /\ trace[i].err = each.err

\* A save call of two items that returned normally, and later a load call of
\* two items that assigned both and a load call that failed at its second.
LeftToRightWitness ==
    \E i, j, k \in 1..Len(trace) :
        /\ trace[i].op = "save"
        /\ Len(trace[i].types) = 2
        /\ trace[i].err = "none"
        /\ trace[i].vals[1] # trace[i].vals[2]
        /\ trace[j].op = "load"
        /\ Len(trace[j].types) = 2
        /\ trace[j].err = "none"
        /\ trace[j].consumed = 5
        /\ trace[k].op = "load"
        /\ Len(trace[k].types) = 2
        /\ trace[k].err = "out_of_range"
        /\ trace[k].consumed = 1


\* ------------------------------------------------------------------------
\* The vector as a queue between the output and the input archive.
\* ------------------------------------------------------------------------

RECURSIVE SavedBytes(_)
\* The encodings of the items of the save calls of a trace, in their order.
SavedBytes(calls) ==
    IF calls = <<>> THEN <<>>
    ELSE (IF Head(calls).op = "save"
          THEN WireBytes(registry_out, ZipItems(Head(calls).types, Head(calls).vals))
          ELSE <<>>)
         \o SavedBytes(Tail(calls))

RECURSIVE LoadedBytes(_)
\* The number of bytes the load calls of a trace consumed.
LoadedBytes(calls) ==
    IF calls = <<>> THEN 0
    ELSE (IF Head(calls).op = "load" THEN Head(calls).consumed ELSE 0)
         + LoadedBytes(Tail(calls))

\* C20: while every call returns normally, the vector holds the bytes it held
\* at construction and the encodings of the saved values, in the order of
\* the saves, less the bytes the loads have consumed from its front: each
\* load reads the earliest bytes not yet loaded and no other byte appears.
SharedBufferFifo ==
    (trace # <<>> /\ \A i \in 1..Len(trace) : trace[i].err = "none") =>
        LET all == trace[1].before \o SavedBytes(trace)
        IN  data = SubSeq(all, LoadedBytes(trace) + 1, Len(all))


\* ------------------------------------------------------------------------
\* make_id.  A std::uint32_t is a pair <<high, low>> of 16-bit limbs and a
\* std::uint64_t a pair <<high, low>> of such words.  Every operator takes
\* the values of its operands once (Bind).
\* ------------------------------------------------------------------------

RECURSIVE BitAnd16(_, _)
\* a & b on 16 bits.
BitAnd16(a, b) ==
    IF a = 0 \/ b = 0 THEN 0
    ELSE (a % 2) * (b % 2) + 2 * BitAnd16(a \div 2, b \div 2)

\* x & y, x | y, x ^ y and ~x on std::uint32_t.
And32(x, y) ==
    Bind(<<x, y>>, LAMBDA p : <<BitAnd16(p[1][1], p[2][1]), BitAnd16(p[1][2], p[2][2])>>)

Or32(x, y) ==
    Bind(<<x, y>>, LAMBDA p :
        <<p[1][1] + p[2][1] - BitAnd16(p[1][1], p[2][1]),
          p[1][2] + p[2][2] - BitAnd16(p[1][2], p[2][2])>>)

Xor32(x, y) ==
    Bind(<<x, y>>, LAMBDA p :
        <<p[1][1] + p[2][1] - 2 * BitAnd16(p[1][1], p[2][1]),
          p[1][2] + p[2][2] - 2 * BitAnd16(p[1][2], p[2][2])>>)

Not32(x) == Bind(x, LAMBDA p : <<Limb - 1 - p[1], Limb - 1 - p[2]>>)

\* x + y on std::uint32_t: modulo 2^32.
Add32(x, y) ==
    Bind(<<x, y>>, LAMBDA p :
        <<(p[1][1] + p[2][1] + (p[1][2] + p[2][2]) \div Limb) % Limb,
          (p[1][2] + p[2][2]) % Limb>>)

\* x << n and x >> n on std::uint32_t, 0 <= n < 32.
ShiftLeft32(x, n) ==
    Bind(x, LAMBDA p :
        IF n >= 16 THEN <<(p[2] * 2^(n - 16)) % Limb, 0>>
        ELSE <<((p[1] * 2^n) % Limb) + (p[2] \div 2^(16 - n)), (p[2] * 2^n) % Limb>>)

ShiftRight32(x, n) ==
    Bind(x, LAMBDA p :
        IF n >= 16 THEN <<0, p[1] \div 2^(n - 16)>>
        ELSE <<p[1] \div 2^n, (p[2] \div 2^n) + ((p[1] % 2^n) * 2^(16 - n))>>)

\* detail::rotate_left(number, count), 0 < count < 32.
RotateLeft(number, count) ==
    Bind(number, LAMBDA p : Or32(ShiftLeft32(p, count), ShiftRight32(p, 32 - count)))

\* detail::swap_byte_order of std::uint16_t, std::uint32_t and std::uint64_t.
SwapByteOrder16(value) == ((value % 256) * 256) + (value \div 256)

SwapByteOrder32(value) ==
    Bind(value, LAMBDA p : <<SwapByteOrder16(p[2]), SwapByteOrder16(p[1])>>)

\* A swap_byte_order of std::uint64_t that leaves the value as it is.
SwapByteOrder64Identity(value) == value

SwapByteOrder64(value) ==
    Bind(value, LAMBDA p : <<SwapByteOrder32(p[2]), SwapByteOrder32(p[1])>>)

\* std::uint32_t(n) of a count n < 2^31.
ToWord(n) == <<(n \div Limb) % Limb, n % Limb>>

\* h0 .. h4 at the start.
InitialHash == <<<<26437, 8961>>, <<61389, 43913>>, <<39098, 56574>>, <<4146, 21622>>, <<50130, 57840>>>>

\* aligned_message_size, size being the size of the array with its null.
AlignedMessageSize(size) == (((size + 8) + 63) \div 64) * 64

\* std::uint32_t(c) << ((sizeof(std::uint32_t) - 1 - (i % 4)) * 8), byte order
\* swapped: what is or-ed into preprocessed_message[i / 4] for byte c at i.
ByteInMessage(c, i) == SwapByteOrder32(ShiftLeft32(<<0, c>>, (4 - 1 - (i % 4)) * 8))

RECURSIVE FillName(_, _, _, _)
\* The loop over the characters of the name, for i from `from` up to, not
\* including, `to`: its first half, then its second half.
FillName(message, name, from, to) ==
    IF from >= to THEN message
    ELSE IF to - from = 1
    THEN [message EXCEPT ![(from \div 4) + 1] =
                Or32(@, ByteInMessage(name[from + 1], from))]
    ELSE Bind(FillName(message, name, from, (from + to) \div 2),
              LAMBDA half : FillName(half, name, (from + to) \div 2, to))

\* preprocessed_message: the name, the byte 0x80, zeros, and the length in
\* bits in the last two words.  The length is below 2^32: its high word is 0.
PreprocessedMessage(name) ==
    LET size == Len(name) + 1
        words == AlignedMessageSize(size) \div 4
    IN  Bind(FillName([i \in 1..words |-> <<0, 0>>], name, 0, size - 1),
             LAMBDA named :
               Bind([named EXCEPT ![(size - 1) \div 4 + 1] =
                        Or32(@, ByteInMessage(128, size - 1))],
                    LAMBDA marked :
                      [marked EXCEPT
                         ![words - 1] = SwapByteOrder32(<<0, 0>>),
                         ![words] = SwapByteOrder32(ToWord((size - 1) * 8))]))

RECURSIVE ExtendWords(_, _, _)
\* The loop that extends w from sixteen to eighty words, for j from `from`
\* up to, not including, `to`: its first half, then its second half.
ExtendWords(w, from, to) ==
    IF to - from = 1
    THEN Append(w, SwapByteOrder32(RotateLeft(SwapByteOrder32(
                    Xor32(Xor32(Xor32(w[from - 3 + 1], w[from - 8 + 1]),
                                w[from - 14 + 1]),
                          w[from - 16 + 1])), 1)))
    ELSE Bind(ExtendWords(w, from, (from + to) \div 2),
              LAMBDA half : ExtendWords(half, (from + to) \div 2, to))

\* f and k of round j.
RoundF(j, b, c, d) ==
    IF j <= 19 THEN Or32(And32(b, c), And32(Not32(b), d))
    ELSE IF j <= 39 THEN Xor32(Xor32(b, c), d)
    ELSE IF j <= 59 THEN Or32(Or32(And32(b, c), And32(b, d)), And32(c, d))
    ELSE Xor32(Xor32(b, c), d)

RoundK(j) ==
    IF j <= 19 THEN <<23170, 31129>>
    ELSE IF j <= 39 THEN <<28377, 60321>>
    ELSE IF j <= 59 THEN <<36635, 48348>>
    ELSE <<51810, 49622>>

RECURSIVE MainLoop(_, _, _, _)
\* The main loop over <<a, b, c, d, e>>, for j from `from` up to, not
\* including, `to`: its first half, then its second half.
MainLoop(s, w, from, to) ==
    IF to - from = 1
    THEN <<Add32(Add32(Add32(Add32(RotateLeft(s[1], 5),
                                   RoundF(from, s[2], s[3], s[4])),
                             s[5]),
                       RoundK(from)),
                 SwapByteOrder32(w[from + 1])),
           s[1], RotateLeft(s[2], 30), s[3], s[4]>>
    ELSE Bind(MainLoop(s, w, from, (from + to) \div 2),
              LAMBDA half : MainLoop(half, w, (from + to) \div 2, to))

RECURSIVE ProcessChunks(_, _, _)
\* The loop over the 512-bit chunks, from word i on; h is <<h0, .., h4>>.
ProcessChunks(h, message, i) ==
    IF i >= Len(message) THEN h
    ELSE Bind(ExtendWords(SubSeq(message, i + 1, i + 16), 16, 80),
              LAMBDA w :
                Bind(MainLoop(h, w, 0, 80),
                     LAMBDA s :
                       Bind(<<Add32(h[1], s[1]), Add32(h[2], s[2]), Add32(h[3], s[3]),
                              Add32(h[4], s[4]), Add32(h[5], s[5])>>,
                            LAMBDA next : ProcessChunks(next, message, i + 16))))

\* make_id(name): swap_byte_order((std::uint64_t(h0) << 32) | h1).
MakeId(name) ==
    Bind(ProcessChunks(InitialHash, PreprocessedMessage(name), 0),
         LAMBDA h : SwapByteOrder64(<<h[1], h[2]>>))

\* ------------------------------------------------------------------------
\* SHA-1 as FIPS 180-4 defines it, on big-endian words of four bytes.
\* ------------------------------------------------------------------------

RECURSIVE Sha1And8(_, _)
Sha1And8(a, b) ==
    IF a = 0 \/ b = 0 THEN 0
    ELSE (a % 2) * (b % 2) + 2 * Sha1And8(a \div 2, b \div 2)

Sha1And(x, y) == Bind(<<x, y>>, LAMBDA p : [i \in 1..4 |-> Sha1And8(p[1][i], p[2][i])])

Sha1Xor(x, y) ==
    Bind(<<x, y>>, LAMBDA p :
        [i \in 1..4 |-> p[1][i] + p[2][i] - 2 * Sha1And8(p[1][i], p[2][i])])

Sha1Not(x) == Bind(x, LAMBDA p : [i \in 1..4 |-> 255 - p[i]])

\* Addition modulo 2^32.
Sha1Add(x, y) ==
    Bind(<<x, y>>, LAMBDA p :
        Bind([i \in 1..4 |-> p[1][i] + p[2][i]], LAMBDA s :
            <<(s[1] + (s[2] + (s[3] + (s[4] \div 256)) \div 256) \div 256) % 256,
              (s[2] + (s[3] + (s[4] \div 256)) \div 256) % 256,
              (s[3] + (s[4] \div 256)) % 256,
              s[4] % 256>>))

\* ROTL^n(x).
Sha1Rotl(x, n) ==
    Bind([i \in 1..4 |-> x[((i - 1 + (n \div 8)) % 4) + 1]], LAMBDA y :
        [i \in 1..4 |-> ((y[i] * 2^(n % 8)) % 256) + y[(i % 4) + 1] \div 2^(8 - (n % 8))])

\* The message padded to a multiple of 64 bytes.
Sha1Pad(message) ==
    LET bits == Len(message) * 8
    IN  message \o <<128>> \o [i \in 1..((119 - Len(message)) % 64) |-> 0]
        \o <<0, 0, 0, 0, (bits \div 16777216) % 256, (bits \div 65536) % 256,
             (bits \div 256) % 256, bits % 256>>

\* Ch, Parity, Maj and the constant of round t.
Sha1F(t, x, y, z) ==
    IF t <= 19 THEN Sha1Xor(Sha1And(x, y), Sha1And(Sha1Not(x), z))
    ELSE IF 40 <= t /\ t <= 59
    THEN Sha1Xor(Sha1Xor(Sha1And(x, y), Sha1And(x, z)), Sha1And(y, z))
    ELSE Sha1Xor(Sha1Xor(x, y), z)

Sha1K(t) ==
    IF t <= 19 THEN <<90, 130, 121, 153>>
    ELSE IF t <= 39 THEN <<110, 217, 235, 161>>
    ELSE IF t <= 59 THEN <<143, 27, 188, 220>>
    ELSE <<202, 98, 193, 214>>

RECURSIVE Sha1Schedule(_, _)
\* W_0 .. W_(n-1) from W_0 .. W_15.
Sha1Schedule(w, n) ==
    IF n = Len(w) THEN w
    ELSE IF n = Len(w) + 1
    THEN Append(w, Sha1Rotl(Sha1Xor(Sha1Xor(Sha1Xor(w[n - 3], w[n - 8]),
                                            w[n - 14]), w[n - 16]), 1))
    ELSE Bind(Sha1Schedule(w, (Len(w) + n) \div 2),
              LAMBDA half : Sha1Schedule(half, n))

RECURSIVE Sha1Rounds(_, _, _, _)
\* The working variables after the rounds t = first .. last.
Sha1Rounds(v, w, first, last) ==
    IF first = last
    THEN <<Sha1Add(Sha1Add(Sha1Add(Sha1Add(Sha1Rotl(v[1], 5),
                                           Sha1F(first, v[2], v[3], v[4])),
                                   v[5]), Sha1K(first)), w[first + 1]),
           v[1], Sha1Rotl(v[2], 30), v[3], v[4]>>
    ELSE Bind(Sha1Rounds(v, w, first, (first + last) \div 2),
              LAMBDA half : Sha1Rounds(half, w, ((first + last) \div 2) + 1, last))

RECURSIVE Sha1Blocks(_, _)
\* The hash after the blocks of the padded message, from the hash h.
Sha1Blocks(h, padded) ==
    IF padded = <<>> THEN h
    ELSE Bind(Sha1Schedule([t \in 1..16 |-> SubSeq(padded, 4 * t - 3, 4 * t)], 80),
              LAMBDA w :
                Bind(Sha1Rounds(h, w, 0, 79),
                     LAMBDA v :
                       Bind(<<Sha1Add(h[1], v[1]), Sha1Add(h[2], v[2]),
                              Sha1Add(h[3], v[3]), Sha1Add(h[4], v[4]),
                              Sha1Add(h[5], v[5])>>,
                            LAMBDA next :
                              Sha1Blocks(next, SubSeq(padded, 65, Len(padded))))))

\* The five words of the SHA-1 digest of the message.
Sha1(message) == Sha1Blocks(<<<<103, 69, 35, 1>>, <<239, 205, 171, 137>>, <<152, 186, 220, 254>>, <<16, 50, 84, 118>>, <<195, 210, 225, 240>>>>, Sha1Pad(message))

\* ------------------------------------------------------------------------
\* make_id on names: the names are the prefixes of one text, on both sides
\* of the lengths at which the padding takes another chunk, and the two
\* names of the documentation.
\* ------------------------------------------------------------------------

NameChar(p) == 97 + (p \div 4) + (p % 4)

NamePrefix(n) == [i \in 1..n |-> NameChar(i - 1)]

\* "v1::person" and "v1::student".
PersonName == <<118, 49, 58, 58, 112, 101, 114, 115, 111, 110>>
StudentName == <<118, 49, 58, 58, 115, 116, 117, 100, 101, 110, 116>>

Names == {NamePrefix(n) : n \in 0..MaxNameLen} \cup {PersonName, StudentName}

MakeIdInit == InitWith(<<>>)

\* make_id(name): the call is recorded with the name and the id.
MakeIdOf(name) ==
    \E id \in {MakeId(name)} :
        /\ trace' = Append(trace, Call("make_id", <<>>, <<>>, <<id>>, "none", name, 0, 0))
        /\ UNCHANGED <<data, out_m_size, in_m_offset, view, registry_in,
                       registry_out, threadVars>>

MakeIdCall ==
    /\ trace = <<>>
    /\ \E name \in Names : MakeIdOf(name)

\* A second call, with the same name or with a name of the documentation.
MakeIdAgain ==
    /\ Len(trace) = 1
    /\ \E name \in {trace[1].before, PersonName, StudentName} : MakeIdOf(name)

MakeIdNext == MakeIdCall \/ MakeIdAgain

SpecMakeId == MakeIdInit /\ [][MakeIdNext]_vars

\* The std::uint32_t of a big-endian word of four bytes.
WordOfBytes(b) == <<b[1] * 256 + b[2], b[3] * 256 + b[4]>>

\* byteswap64((h0 << 32) | h1) for the SHA-1 digest of the name.
SwappedDigestPrefix(name) ==
    Bind(Sha1(name), LAMBDA h :
        <<<<h[2][4] * 256 + h[2][3], h[2][2] * 256 + h[2][1]>>,
          <<h[1][4] * 256 + h[1][3], h[1][2] * 256 + h[1][1]>>>>)

\* The SHA-1 digests FIPS 180 gives for "abc" and for the message of 56
\* characters "abcdbcdecdef...nopq", which are NamePrefix(3) and NamePrefix(56).
KnownDigest(name) ==
    IF name = NamePrefix(3) THEN <<169, 153, 62, 54, 71, 6, 129, 106, 186, 62, 37, 113, 120, 80, 194, 108, 156, 208, 216, 157>>
    ELSE IF name = NamePrefix(56) THEN <<132, 152, 62, 68, 28, 59, 210, 110, 186, 174, 74, 161, 249, 81, 41, 229, 229, 70, 112, 241>>
    ELSE <<>>

\* The twenty bytes of five big-endian words.
DigestBytes(h) == Bind(h, LAMBDA d : d[1] \o d[2] \o d[3] \o d[4] \o d[5])

\* C17: make_id gives every name, of a length below, at and above the one
\* at which the padding takes another chunk, the 64-bit value
\* byteswap64((h0 << 32) | h1) of the first two words of the name's SHA-1
\* digest, the same value every time; the ids of "v1::person" and
\* "v1::student" differ and neither is zero.
MakeIdIsSwappedSha1Prefix ==
    \A i \in 1..Len(trace) :
        trace[i].op = "make_id" =>
            /\ trace[i].vals[1] = SwappedDigestPrefix(trace[i].before)
            /\ KnownDigest(trace[i].before) # <<>> =>
                    DigestBytes(Sha1(trace[i].before)) = KnownDigest(trace[i].before)
            /\ trace[i].vals[1] # <<<<0, 0>>, <<0, 0>>>>
            /\ \A j \in 1..Len(trace) :
                    trace[j].op = "make_id" =>
                        /\ (trace[j].before = trace[i].before) =>
                                trace[j].vals = trace[i].vals
                        /\ ({trace[i].before, trace[j].before}
                                = {PersonName, StudentName}) =>
                                trace[j].vals # trace[i].vals

\* make_id of a name of 56 characters, the shortest that takes two chunks,
\* and then of "v1::person".
MakeIdWitness ==
    /\ Len(trace) = 2
    /\ trace[1].op = "make_id"
    /\ Len(trace[1].before) = 56
    /\ KnownDigest(trace[1].before) # <<>>
    /\ trace[2].before = PersonName
    /\ trace[1].vals # trace[2].vals


\* ------------------------------------------------------------------------
\* The lazy output archive on its own: serialize calls on a
\* lazy_vector_memory_output_archive constructed over the vector, which does
\* not fit the vector between them.
\* ------------------------------------------------------------------------

\* The object representations serialize is called with: items of 1, 2, 4 and
\* 8 bytes, and binary data of 0 and of 3 bytes.
AppendedBytes == {[i \in 1..k |-> k + i] : k \in {0, 1, 2, 3, 4, 8}}

LazyInit == \E initial \in {<<>>, <<7, 7, 7>>} : InitWith(initial)

\* serialize(item) or serialize(data, size) on the lazy archive.
LazySerialize ==
    /\ Len(trace) < MaxCalls
    /\ \E bytes \in AppendedBytes :
        \E ar \in {OutputSerialize([m_output |-> data, m_size |-> out_m_size], bytes)} :
            /\ data' = ar.m_output
            /\ out_m_size' = ar.m_size
            /\ trace' = Append(trace,
                  Call("serialize", <<>>, <<>>, bytes, "none", data, out_m_size, 0))
            /\ UNCHANGED <<in_m_offset, view, registry_in, registry_out, threadVars>>

LazyNext == LazySerialize

SpecLazy == LazyInit /\ [][LazyNext]_vars

\* m_size when call i has returned.
SizeAfter(i) == IF i = Len(trace) THEN out_m_size ELSE trace[i + 1].offset

\* C21: a serialize of k bytes resizes the vector exactly when the logical
\* size plus k exceeds the vector's length, and then to
\* (logical size + k) * 3 / 2; afterwards the logical size has grown by k, it
\* does not exceed the vector's length, the bytes below the old logical size
\* are as they were and the k bytes follow them.
GrowthPolicy ==
    \A i \in 1..Len(trace) :
        trace[i].op = "serialize" =>
            LET k == Len(trace[i].vals)
                old == trace[i].offset
                before == trace[i].before
            IN  /\ Len(After(i)) = IF old + k > Len(before)
                                   THEN ((old + k) * 3) \div 2
                                   ELSE Len(before)
                /\ SizeAfter(i) = old + k
                /\ SizeAfter(i) <= Len(After(i))
                /\ SubSeq(After(i), 1, old) = SubSeq(before, 1, old)
                /\ SubSeq(After(i), old + 1, old + k) = trace[i].vals
                /\ \A j \in (old + k + 1)..Len(After(i)) :
                      After(i)[j] = IF j <= Len(before) THEN before[j] ELSE 0

\* A serialize that resized the vector to more than it needed, and after it
\* a serialize that found the room and did not resize.
GrowthPolicyWitness ==
    \E i \in 1..(Len(trace) - 1) :
        /\ trace[i].op = "serialize"
        /\ trace[i].offset + Len(trace[i].vals) > Len(trace[i].before)
        /\ Len(After(i)) > SizeAfter(i)
        /\ Len(trace[i + 1].vals) > 0
        /\ Len(After(i + 1)) = Len(After(i))
        /\ SizeAfter(i + 1) > SizeAfter(i)


\* ------------------------------------------------------------------------
\* Registering again: an id or a type that a registry already has.
\* ------------------------------------------------------------------------

RECURSIVE AddsOfList(_, _, _)
\* The pairs one register_types object adds to the registry of the archive,
\* in the order of the add calls: the base class first.
AddsOfList(list, archives, archive) ==
    IF list = <<>> THEN <<>>
    ELSE AddsOfList(Tail(list), BuiltinArchives, archive)
         \o (IF \E i \in 1..Len(archives) : archives[i] = archive
             THEN <<Head(list)>> ELSE <<>>)

RECURSIVE AddsOfCalls(_, _)
\* The pairs the calls added to the registry of the archive, in order.
AddsOfCalls(calls, archive) ==
    IF calls = <<>> THEN <<>>
    ELSE (IF Head(calls).op = "register"
          THEN AddsOfList(Head(calls).types, Head(calls).dests, archive)
          ELSE <<>>)
         \o AddsOfCalls(Tail(calls), archive)

AddsTo(archive) == AddsOfCalls(trace, archive)

\* The adds of the sequence that have the id, and those that have the type.
AddsOfId(adds, id) == SelectSeq(adds, LAMBDA a : a.id = id)
AddsOfType(adds, type) == SelectSeq(adds, LAMBDA a : a.type = type)

\* C22 as stated: in each registry an id yields the method of the add that
\* came last with that id, and a type the id of the add that came last with
\* that type.
LastWriterWins ==
    \A archive \in DOMAIN Registries(registry_in, registry_out) :
        LET reg == Registries(registry_in, registry_out)[archive]
            adds == AddsTo(archive)
        IN  \A i \in 1..Len(adds) :
                /\ reg.m_serialization_id_to_method[adds[i].id]
                     = AddsOfId(adds, adds[i].id)[Len(AddsOfId(adds, adds[i].id))].type
                /\ reg.m_type_information_to_serialization_id[adds[i].type]
                     = AddsOfType(adds, adds[i].type)[Len(AddsOfType(adds, adds[i].type))].id

\* C22: in each registry an id yields the method of the add that came first
\* with that id, and a type the id of the add that came first with that
\* type; the maps have no other key.
FirstWriterWins ==
    \A archive \in DOMAIN Registries(registry_in, registry_out) :
        LET reg == Registries(registry_in, registry_out)[archive]
            adds == AddsTo(archive)
        IN  /\ DOMAIN reg.m_serialization_id_to_method
                 = {adds[i].id : i \in 1..Len(adds)}
            /\ DOMAIN reg.m_type_information_to_serialization_id
                 = {adds[i].type : i \in 1..Len(adds)}
            /\ \A i \in 1..Len(adds) :
                /\ reg.m_serialization_id_to_method[adds[i].id]
                     = AddsOfId(adds, adds[i].id)[1].type
                /\ reg.m_type_information_to_serialization_id[adds[i].type]
                     = AddsOfType(adds, adds[i].type)[1].id

\* The output registry was given one id with two methods and one type with
\* two ids.
FirstWriterWinsWitness ==
    LET adds == AddsTo("lazy_vector_memory_output_archive")
    IN  /\ \E i, j \in 1..Len(adds) :
            i < j /\ adds[i].id = adds[j].id /\ adds[i].type # adds[j].type
        /\ \E i, j \in 1..Len(adds) :
            i < j /\ adds[i].type = adds[j].type /\ adds[i].id # adds[j].id


\* ------------------------------------------------------------------------
\* Registrations that fail: an emplace of add ends with std::bad_alloc.
\* ------------------------------------------------------------------------

\* Where an add can be left by an exception: nowhere, at the emplace into
\* m_serialization_id_to_method, at the one into
\* m_type_information_to_serialization_id.  An emplace that throws has no
\* effect; what was done before it stays done.
ThrowPoints == {"none", "method", "type"}

\* registry::add in which the emplace named by `at` throws.
RegistryAddThrowing(reg, id, type, at) ==
    IF at = "none" THEN RegistryAdd(reg, id, type)
    ELSE IF at = "method" THEN reg
    ELSE [reg EXCEPT !.m_serialization_id_to_method = MapEmplace(@, id, type)]

\* register_types<make_type<Type, id>> _: register_type_to_archive for each
\* built-in archive, which catches whatever add throws.  `plan` names, for
\* each built-in archive in turn, where its add throws.
RegisterTypeFailing(type, id, plan) ==
    /\ registry_in' = RegistryAddThrowing(registry_in, id, type, plan[1])
    /\ registry_out' = RegistryAddThrowing(registry_out, id, type, plan[2])
    /\ trace' = Append(trace,
          Call("register", <<MakeType(type, id)>>, BuiltinArchives, plan, "none",
               data, 0, 0))
    /\ UNCHANGED <<data, out_m_size, in_m_offset, view, threadVars>>

FailInit == InitWith(<<>>)

FailRegister ==
    /\ trace = <<>>
    /\ \E c \in {MakeType("person", IdA), MakeType("shape", IdB)} :
       \E plan \in [1..Len(BuiltinArchives) -> ThrowPoints] :
          RegisterTypeFailing(c.type, c.id, plan)

\* out(pointer) with an object of the type of the registration.
FailSave ==
    /\ Len(trace) = 1
    /\ \E o \in PolyObjects(trace[1].types[1].type) :
          Save(<<[t |-> PolyUniquePtrT(trace[1].types[1].type), v |-> <<o>>]>>)

\* A view archive over a stream that starts with the id of the registration:
\* what a process in which the registration succeeded has saved.
FailView ==
    /\ Len(trace) = 1
    /\ \E o \in PolyObjects(trace[1].types[1].type) :
          ViewConstruct(Encode(RegistryAdd(EmptyRegistry, trace[1].types[1].id,
                                           trace[1].types[1].type),
                               PolyUniquePtrT(trace[1].types[1].type), <<o>>))

\* view(pointer).
FailViewLoad ==
    /\ Len(trace) = 2
    /\ LastCall.op = "view"
    /\ ViewLoad(<<PolyUniquePtrT(trace[1].types[1].type)>>, <<<<>>>>)

FailNext == FailRegister \/ FailSave \/ FailView \/ FailViewLoad

SpecFail == FailInit /\ [][FailNext]_vars

\* Where the add to the archive's registry threw in the registration.
ThrewAt(archive) ==
    IF archive = BuiltinArchives[1] THEN trace[1].vals[1] ELSE trace[1].vals[2]

\* C23: a registration whose add throws leaves both maps of that registry
\* as they were, and the first save of the type, or load of the id, that
\* uses the registry raises undeclared_polymorphic_type.
FailedRegistrationIsNoOp ==
    trace # <<>> =>
        /\ \A archive \in DOMAIN Registries(registry_in, registry_out) :
              ThrewAt(archive) # "none" =>
                  Registries(registry_in, registry_out)[archive] = EmptyRegistry
        /\ (LastCall.op = "save"
                /\ ThrewAt("lazy_vector_memory_output_archive") # "none") =>
              LastCall.err = "undeclared_polymorphic_type"
        /\ (LastCall.op = "view_load"
                /\ ThrewAt("memory_view_input_archive") # "none") =>
              LastCall.err = "undeclared_polymorphic_type"


\* ------------------------------------------------------------------------
\* The two handlers of resizable sequences on integers and enumerations:
\* std::vector takes the contiguous overloads, std::list the generic ones.
\* A sequence is saved from one of the two containers and loaded into one.
\* ------------------------------------------------------------------------

ElementTypes == {U8, U16, U32, EnumT(2)}

SequencesOf(E) == {VectorT(E), ListT(E)}

PathsInit == InitWith(<<>>)

PathsSave ==
    /\ trace = <<>>
    /\ \E E \in ElementTypes : \E C \in SequencesOf(E) : \E v \in Values(C) :
          Save(<<[t |-> C, v |-> v]>>)

\* in(container): the destination is empty or holds an element.
PathsLoad ==
    /\ Len(trace) = 1
    /\ \E C \in SequencesOf(trace[1].types[1].s[1]) :
       \E dest \in {Default(C), Preset(C)} :
          Load(<<C>>, <<dest>>)

PathsNext == PathsSave \/ PathsLoad

SpecPaths == PathsInit /\ [][PathsNext]_vars

\* C24: a sequence of integers or enumerations saved from a std::vector
\* (contiguous overload) or from a std::list (generic overload) gives the
\* same bytes: the number of items in 4 bytes and then the bytes of the
\* items in order, 4 zero bytes and nothing else when it is empty.  Loaded
\* into either container, whatever was saved from, the bytes give the
\* sequence back and are consumed to the last.
PathsAgree ==
    trace # <<>> =>
        LET C == trace[1].types[1]
            v == trace[1].vals[1]
            stream == After(1)
        IN  /\ trace[1].err = "none"
            /\ stream = ToBytes(Len(v), SizeTypeSize) \o Flatten(v, C.s[1].n)
            /\ \A D \in SequencesOf(C.s[1]) :
                  WireBytes(registry_out, <<[t |-> D, v |-> v]>>) = stream
            /\ v = <<>> => stream = <<0, 0, 0, 0>>
            /\ Len(trace) = 2 =>
                  /\ trace[2].err = "none"
                  /\ trace[2].vals = <<v>>
                  /\ trace[2].consumed = Len(stream)
                  /\ data = <<>>

\* A list of MaxLen items, not all the same, was saved by the generic
\* overload and loaded by the contiguous one into a vector that held an
\* element.
PathsAgreeWitness ==
    /\ Len(trace) = 2
    /\ trace[1].types[1].k = "list"
    /\ trace[2].types[1].k = "vector"
    /\ Len(trace[1].vals[1]) = MaxLen
    /\ trace[2].dests[1] # <<>>
    /\ trace[1].vals[1][1] # trace[1].vals[1][MaxLen]


\* ------------------------------------------------------------------------
\* binary<Item> over arrays of up to 2^30 + MaxLen items.  The array a
\* wrapper points at is [m_items, m_count]: m_count items that repeat the
\* items of m_items, so that an array is described without being written out.
\* ------------------------------------------------------------------------

\* as_binary(items, count).
AsBinary(items, count) == [m_items |-> items, m_count |-> count]

ItemAt(b, i) == b.m_items[((i - 1) % Len(b.m_items)) + 1]

\* The first `size` bytes of the memory at binary::data().
MemoryAt(b, itemSize, size) ==
    [i \in 1..size |->
        IntToBytes(ItemAt(b, ((i - 1) \div itemSize) + 1), itemSize)
            [((i - 1) % itemSize) + 1]]

\* archive::serialize_item(binary<T> &&) of an output archive:
\* serialize(item.data(), item.size_in_bytes()).
SerializeBinary(ar, b, itemSize) ==
    Bind(SizeInBytes(b.m_count, itemSize),
         LAMBDA size : OutputSerialize(ar, MemoryAt(b, itemSize, size)))

\* The contiguous saving overload on a container of b.m_count items: the
\* size, then as_binary(&container[0], size) unless the size is 0.
SerializeContiguous(ar, b, itemSize) ==
    Bind(OutputSerialize(ar, ToBytes(b.m_count, SizeTypeSize)),
         LAMBDA r : IF b.m_count = 0 THEN r ELSE SerializeBinary(r, b, itemSize))

\* The counts of items of `itemSize` bytes: the short ones, and for 4-byte
\* items those from 2^30, whose size in bytes is from 2^32.
QuarterOfSizeRange == (Limb \div 4) * Limb

Counts(itemSize) ==
    (0..MaxLen)
    \cup (IF itemSize = 4 THEN {QuarterOfSizeRange + k : k \in 0..MaxLen} ELSE {})

BinaryPaths == {"binary", "contiguous"}

BinaryInit == InitWith(<<>>)

\* out(as_binary(items, count)) and out(container).
BinarySave ==
    /\ trace = <<>>
    /\ \E E \in {U8, U16, U32} : \E count \in Counts(E.n) :
       \E items \in [1..2 -> ScalarValues(E.n)] : \E path \in BinaryPaths :
       \E b \in {AsBinary(items, count)} :
       \E r \in {FitVector(IF path = "binary"
                           THEN SerializeBinary(OutputArchive(data), b, E.n)
                           ELSE SerializeContiguous(OutputArchive(data), b, E.n))} :
          /\ data' = r.m_output
          /\ out_m_size' = r.m_size
          /\ trace' = Append(trace,
                Call(path, <<E>>, <<>>, <<b>>, "none", data, out_m_size, 0))
          /\ UNCHANGED <<in_m_offset, view, registry_in, registry_out, threadVars>>

\* in(as_binary(items, count)) on the bytes of the save, count as saved: the
\* bytes copied to the memory at binary::data() are recorded.
BinaryLoad ==
    /\ Len(trace) = 1
    /\ trace[1].op = "binary"
    /\ \E r \in {InputSerialize(InputArchive(data),
                    SizeInBytes(trace[1].vals[1].m_count, trace[1].types[1].n))} :
          /\ data' = VectorErase(data, r.ar.m_offset)
          /\ in_m_offset' = 0
          /\ trace' = Append(trace,
                Call("binary_load", trace[1].types, <<>>, <<r.bytes>>, r.err, data,
                     0, r.ar.m_offset))
          /\ UNCHANGED <<out_m_size, view, registry_in, registry_out, threadVars>>

BinaryNext == BinarySave \/ BinaryLoad

SpecBinary == BinaryInit /\ [][BinaryNext]_vars

\* The bytes call i put after the size prefix, if it writes one.
BinaryBytesOf(i) ==
    Len(After(i)) - trace[i].offset
    - (IF trace[i].op = "contiguous" THEN SizeTypeSize ELSE 0)

\* C25: the raw-binary wrapper and the contiguous overload transfer
\* count x sizeof(T) bytes, whatever the count: the number of bytes
\* transferred is a whole number of items, and that number is the count.
TransfersCountTimesSize ==
    /\ trace # <<>> =>
          /\ BinaryBytesOf(1) % trace[1].types[1].n = 0
          /\ BinaryBytesOf(1) \div trace[1].types[1].n = trace[1].vals[1].m_count
    /\ Len(trace) = 2 =>
          /\ trace[2].err = "none"
          /\ trace[2].consumed % trace[2].types[1].n = 0
          /\ trace[2].consumed \div trace[2].types[1].n = trace[1].vals[1].m_count

\* The same for the counts whose size in bytes is below 2^32.
TransfersCountTimesSizeBelowWrap ==
    (trace # <<>> /\ trace[1].vals[1].m_count < QuarterOfSizeRange)
        => TransfersCountTimesSize


\* ------------------------------------------------------------------------
\* The size prefix of containers of up to 2^32 + MaxLen items, std::size_t
\* being wider than size_type.  A container is [m_items, size], size being
\* container.size() as [high, low] = high * 2^32 + low; the stream a save
\* appends is described by its size prefix, which is written to the vector,
\* and by the number of items put after the prefix, which is recorded in the
\* call as [high, low].
\* ------------------------------------------------------------------------

ContainerSizes == {[high |-> h, low |-> l] : h \in 0..1, l \in 0..MaxLen}

\* static_cast<size_type>(container.size()).
CastToSizeType(size) == ToSizeType(size.low)

SizePrefixHandlers == {"generic", "contiguous", "associative"}

\* The number of items the saving overload writes after the size: the
\* generic and the associative overload write every item of the container
\* (for (auto & item : container) archive(item)), the contiguous one writes
\* as_binary(&container[0], static_cast<size_type>(container.size())) unless
\* the size is 0.
ItemsSaved(handler, size, itemSize) ==
    IF handler = "contiguous"
    THEN [high |-> 0,
          low |-> IF size.low = 0 THEN 0
                  ELSE SizeInBytes(CastToSizeType(size), itemSize) \div itemSize]
    ELSE size

PrefixInit == InitWith(<<>>)

\* out(container).
PrefixSave ==
    /\ trace = <<>>
    /\ \E handler \in SizePrefixHandlers : \E E \in {U8, U16, U32} :
       \E size \in ContainerSizes : \E items \in [1..2 -> ScalarValues(E.n)] :
       \E r \in {FitVector(OutputSerialize(OutputArchive(data),
                    ToBytes(CastToSizeType(size), SizeTypeSize)))} :
          /\ data' = r.m_output
          /\ out_m_size' = r.m_size
          /\ trace' = Append(trace,
                Call(handler, <<E>>, <<>>, <<[m_items |-> items, size |-> size]>>,
                     "none", data, out_m_size, ItemsSaved(handler, size, E.n)))
          /\ UNCHANGED <<in_m_offset, view, registry_in, registry_out, threadVars>>

PrefixNext == PrefixSave

SpecPrefix == PrefixInit /\ [][PrefixNext]_vars

\* C26: the size prefix a save writes is the number of items of the
\* container and the number of items put after it, and a container of more
\* than 2^32 - 1 items is not saved: the call raises and emits nothing.
PrefixIsItemCount ==
    trace # <<>> =>
        LET size == trace[1].vals[1].size
            prefix == FromBytes(SubSeq(After(1), 1, SizeTypeSize))
        IN  IF size.high = 0
            THEN /\ trace[1].err = "none"
                 /\ prefix = size.low
                 /\ trace[1].consumed = [high |-> 0, low |-> prefix]
            ELSE /\ trace[1].err # "none"
                 /\ After(1) = trace[1].before

\* The same for the containers of at most 2^32 - 1 items.
PrefixIsItemCountBelowLimit ==
    (trace # <<>> /\ trace[1].vals[1].size.high = 0) => PrefixIsItemCount


\* ------------------------------------------------------------------------
\* Loading into a container that holds something: a container is saved and
\* its bytes are loaded into a container of the same type of any contents.
\* ------------------------------------------------------------------------

ReplacedContainers == {VectorT(U8), ListT(U8), MapT(U8, U8)}

ReplaceInit == InitWith(<<>>)

ReplaceSave ==
    /\ trace = <<>>
    /\ \E C \in ReplacedContainers : \E c \in Values(C) :
          Save(<<[t |-> C, v |-> c]>>)

ReplaceLoad ==
    /\ Len(trace) = 1
    /\ \E dest \in Values(trace[1].types[1]) :
          Load(trace[1].types, <<dest>>)

ReplaceNext == ReplaceSave \/ ReplaceLoad

SpecReplace == ReplaceInit /\ [][ReplaceNext]_vars

\* C27: after the bytes of a saved container are loaded into a container of
\* the same type, the destination is the saved container whatever it held
\* before, and the load has consumed the size and the items, which is the
\* whole stream.
LoadReplacesDestination ==
    Len(trace) = 2 =>
        /\ trace[2].err = "none"
        /\ trace[2].vals = trace[1].vals
        /\ trace[2].consumed = Len(trace[2].before)
        /\ data = <<>>

\* The same for the sequences, and for the maps that were empty before.
LoadReplacesSequenceDestination ==
    (/\ Len(trace) = 2
     /\ trace[2].types[1].k = "map" => trace[2].dests[1] = <<>>)
        => LoadReplacesDestination


\* ------------------------------------------------------------------------
\* The overloads selected for a resizable sequence, over every combination
\* of the traits the enable_if conditions read: a sequence of each kind, of
\* integers or of objects of a class, is saved and its bytes are loaded.
\* ------------------------------------------------------------------------

SequenceHandlers == {"generic", "contiguous"}

\* The saving overloads whose conditions the container satisfies.
SaveHandlers(C) ==
    {h \in SequenceHandlers :
        IF h = "generic" THEN GenericSaveEnabled(C) ELSE ContiguousEnabled(C)}

\* The loading overloads whose conditions the container satisfies.
LoadHandlers(C) ==
    {h \in SequenceHandlers :
        IF h = "generic" THEN GenericLoadEnabled(C) ELSE ContiguousEnabled(C)}

SelectedSequences ==
    {TypeDesc(k, 0, "", <<E>>) : k \in ResizableKinds, E \in {U8, PointT}}

SelectInit == InitWith(<<>>)

SelectSave ==
    /\ trace = <<>>
    /\ \E C \in SelectedSequences : \E v \in Values(C) :
          Save(<<[t |-> C, v |-> v]>>)

\* in(container): a call no overload is selected for does not compile, which
\* the call records as "no_matching_function".
SelectLoad ==
    /\ Len(trace) = 1
    /\ Load(trace[1].types, Defaults(trace[1].types))

SelectNext == SelectSave \/ SelectLoad

SpecSelect == SelectInit /\ [][SelectNext]_vars

\* C28: for a resizable sequence of any traits exactly one of the generic
\* and the contiguous overload is selected, for saving and for loading; it is
\* the contiguous one exactly when the items are integers or enumerations
\* and the container has random access iterators and data(); the one that
\* saves is the one that loads, so what was saved is loaded.
SelectionIsTotalAndSymmetric ==
    \A i \in 1..Len(trace) :
        LET C == trace[i].types[1]
        IN  /\ Cardinality(SaveHandlers(C)) = 1
            /\ Cardinality(LoadHandlers(C)) = 1
            /\ "contiguous" \in SaveHandlers(C)
                  <=> /\ IsFundamentalOrEnum(C.s[1])
                      /\ IsRandomAccess(C)
                      /\ HasDataMemberFunction(C)
            /\ SaveHandlers(C) = LoadHandlers(C)
            /\ trace[i].err = "none"
            /\ i = 2 => trace[2].vals = trace[1].vals

\* The same for saving alone.
SaveSelectionIsTotal ==
    \A i \in 1..Len(trace) :
        LET C == trace[i].types[1]
        IN  /\ Cardinality(SaveHandlers(C)) = 1
            /\ "contiguous" \in SaveHandlers(C)
                  <=> /\ IsFundamentalOrEnum(C.s[1])
                      /\ IsRandomAccess(C)
                      /\ HasDataMemberFunction(C)
            /\ trace[1].err = "none"

\* The same for every sequence but one of integers or enumerations that has
\* random access iterators and no data().
SelectionIsSymmetricButDeque ==
    (trace # <<>>
     /\ ~(/\ IsFundamentalOrEnum(trace[1].types[1].s[1])
          /\ IsRandomAccess(trace[1].types[1])
          /\ ~HasDataMemberFunction(trace[1].types[1])))
        => SelectionIsTotalAndSymmetric

====
